---- MODULE Spec2Model ----
(***************************************************************************)
(* A model of the sampling grid of fractal-explorer                        *)
(* (crates/common/src/point_grid.rs): Bounds, PointGrid and the            *)
(* PointGridIterator, sequential and bridged onto a worker pool.           *)
(*                                                                         *)
(* Real (f64) values are modelled by exact rationals <<num, den>> in       *)
(* lowest terms with den > 0: every f64 operation is taken to be exact.    *)
(* The narrowing casts are modelled by what they do: `as usize` truncates  *)
(* and saturates at 0, `as f32` rounds to a 24-bit significand.            *)
(* Degenerate bounds (a zero or negative range) are never divided by: the  *)
(* specifications that divide draw their bounds from Bounds::rect with     *)
(* positive radii.                                                         *)
(***************************************************************************)
EXTENDS Integers, Naturals, Sequences, FiniteSets, TLC

VARIABLES
    bnd,      \* SpecBounds: a Bounds value
    bop,      \* SpecBounds: the last Bounds operation applied to bnd
    grid,     \* Spec: a PointGrid
    made,     \* Spec: the PointGrid the last operation returned (NoGrid: it returned none)
    gop,      \* Spec: the last PointGrid operation and its arguments
    build,    \* Spec: "debug" or "release" (debug_assert! is compiled in or out)
    pgrid,    \* SpecPixel: the PointGrid whose pixel mapping is evaluated
    px,       \* SpecPixel: the last mapping call, its argument and its result
    it,       \* SpecIter: one PointGridIterator
    out,      \* SpecIter: what the calls of next() returned, in call order
    pit,      \* SpecPar: the iterator shared by the workers of par_iter
    bridge,   \* SpecPar: "open", "fused" (next() returned None) or "poisoned" (it panicked)
    handed,   \* SpecPar: per worker, the items it was handed, in order
    wdone,    \* SpecPar: per worker, whether it has finished
    coloring, \* SpecColoring: a Coloring (interior algorithm and palette)
    files,    \* SpecColoring: the file system, path -> file
    cres,     \* SpecColoring: the last Coloring operation, its argument and its result
    cq,       \* SpecCycles: the last cycle / precycle query and the list it returned
    eb,       \* SpecBailout: the parameter given to early_bailout and what it returned
    ia,       \* SpecInterior: the last interior coloring call and the formula it selected
    parent,   \* SpecJulia: the parent family instance the JuliaSet was built from
    julia,    \* SpecJulia: the JuliaSet
    jcall,    \* SpecJulia: the last JuliaSet operation, its arguments and its result
    jnew,     \* SpecJulia: the last JuliaSet built from the parent, and how
    ray,      \* SpecRay: the progress of one call of external_ray
    ctable,   \* SpecTable: a ChebyshevCoeffTable and the last call made on it
    cheb,     \* SpecChebyshev: the last call on a Chebyshev<D> and what it returned
    qr,       \* SpecQuadRat: the last call on QuadRatPer4 and what it returned
    marking   \* SpecStore: a MarkedObjectStore; SpecMarking: a Marking and its path cache

vars == <<bnd, bop, grid, made, gop, build, pgrid, px, it, out, pit, bridge, handed, wdone,
          coloring, files, cres, cq, eb, ia, parent, julia, jcall, jnew, ray, ctable, cheb,
          qr, marking>>

----------------------------------------------------------------------------
(* Bounds of the model *)

\* Largest radius passed to Bounds::rect when a grid's bounds are drawn.
MaxRadius == 2

\* Largest resolution requested from resize_x / resize_y / with_width / with_height
\* and the constructors.
MaxRes == 3

\* Largest absolute coordinate a Bounds edge may take in SpecBounds.
MaxCoord == 2

\* Largest resolution of a grid whose pixel mapping is evaluated.
MaxPixRes == 4

\* Largest absolute integer coordinate of a point passed to locate_point(_safe).
MaxPoint == 3

\* Largest number of next() calls made on one iterator.
MaxCalls == 20

\* Number of workers of the parallel bridge.
NumWorkers == 2

\* Largest number of items handed out by the parallel bridge in one traversal.
MaxHanded == 6

----------------------------------------------------------------------------
(* Real arithmetic: exact rationals *)

Abs(n) == IF n < 0 THEN -n ELSE n

RECURSIVE Gcd(_, _)
Gcd(a, b) == IF b = 0 THEN a ELSE Gcd(b, a % b)

\* n/d in lowest terms, d # 0.
Rat(n, d) ==
    LET s == IF d < 0 THEN -1 ELSE 1
        g == Gcd(Abs(n), Abs(d))
    IN  <<(s * n) \div g, (s * d) \div g>>

R(n) == <<n, 1>>

\* The operations cancel common factors before they multiply, to keep the
\* intermediate integers small; the values are those of n1/d1 (op) n2/d2.
RAdd(a, b) ==
    LET g == Gcd(a[2], b[2])
    IN  Rat(a[1] * (b[2] \div g) + b[1] * (a[2] \div g), (a[2] \div g) * b[2])
RNeg(a) == <<-a[1], a[2]>>
RSub(a, b) == RAdd(a, RNeg(b))
RMul(a, b) ==
    LET g == Gcd(Abs(a[1]), b[2])
        h == Gcd(Abs(b[1]), a[2])
    IN  Rat((a[1] \div g) * (b[1] \div h), (a[2] \div h) * (b[2] \div g))
\* a / b for b # 0.
RDiv(a, b) == RMul(a, IF b[1] < 0 THEN <<-b[2], -b[1]>> ELSE <<b[2], b[1]>>)
RLt(a, b) ==
    LET g == Gcd(a[2], b[2])
    IN  a[1] * (b[2] \div g) < b[1] * (a[2] \div g)
RLe(a, b) ==
    LET g == Gcd(a[2], b[2])
    IN  a[1] * (b[2] \div g) <= b[1] * (a[2] \div g)
RIsInt(a) == a[2] = 1

\* f64::mul_add(a, b, c) = a * b + c
mul_add(a, b, c) == RAdd(RMul(a, b), c)

\* `x as usize` for a finite float x: truncation toward zero, saturating at 0.
as_usize(a) == IF a[1] <= 0 THEN 0 ELSE a[1] \div a[2]

\* `n as Real` for a usize n.
as_Real(n) == R(n)

RECURSIVE Pow2(_)
Pow2(k) == IF k = 0 THEN 1 ELSE 2 * Pow2(k - 1)

\* The number of fractional bits of the f32 nearest to |a| = n/d > 0: 23 - e
\* with 2^e <= n/d < 2^(e+1).
RECURSIVE F32FracBits(_, _, _)
F32FracBits(n, d, k) ==
    IF n >= 2 * d THEN F32FracBits(n, 2 * d, k - 1)
    ELSE IF n < d THEN F32FracBits(2 * n, d, k + 1)
    ELSE k

\* `x as f32`, and the rounding of every f32 operation: round to nearest, ties to
\* even, with a 24-bit significand: |a| = n/d is rounded to m / 2^k, m the integer
\* nearest to s/t = n * 2^k / d. Values of magnitude below 2^-7 are kept exact
\* (no pixel coordinate of the grids drawn here is that small and not 0).
as_f32(a) ==
    IF a[1] = 0 \/ Abs(a[1]) < a[2] \div 128 THEN a
    ELSE LET n == Abs(a[1])
             d == a[2]
             k == F32FracBits(n, d, 23)
             g == IF k >= 0 THEN Gcd(Pow2(k), d) ELSE 1
             s == IF k >= 0 THEN n * (Pow2(k) \div g) ELSE n
             t == IF k >= 0 THEN d \div g ELSE d * Pow2(-k)
             q == s \div t
             r == s % t
             up == 2 * r > t \/ (2 * r = t /\ q % 2 = 1)
             m == IF up THEN q + 1 ELSE q
             v == IF k >= 0 THEN Rat(m, Pow2(k)) ELSE R(m * Pow2(-k))
         IN  IF a[1] < 0 THEN RNeg(v) ELSE v

Cplx(re, im) == [re |-> re, im |-> im]
CSub(a, b) == Cplx(RSub(a.re, b.re), RSub(a.im, b.im))
CNeg(a) == Cplx(RNeg(a.re), RNeg(a.im))

----------------------------------------------------------------------------
(* Bounds *)

MkBounds(min_x, max_x, min_y, max_y) ==
    [min_x |-> min_x, max_x |-> max_x, min_y |-> min_y, max_y |-> max_y]

range_x(b) == RSub(b.max_x, b.min_x)
range_y(b) == RSub(b.max_y, b.min_y)
mid_x(b) == RDiv(RAdd(b.max_x, b.min_x), R(2))
mid_y(b) == RDiv(RAdd(b.max_y, b.min_y), R(2))
center(b) == Cplx(mid_x(b), mid_y(b))

\* A sign slip on the max_x edge.
translate_slip(b, t) ==
    MkBounds(RAdd(b.min_x, t.re), RSub(b.max_x, t.re),
             RAdd(b.min_y, t.im), RAdd(b.max_y, t.im))

translate(b, t) ==
    MkBounds(RAdd(b.min_x, t.re), RAdd(b.max_x, t.re),
             RAdd(b.min_y, t.im), RAdd(b.max_y, t.im))

zoom(b, scale, base_point) ==
    LET c == translate(b, CNeg(base_point))
        s == MkBounds(RMul(c.min_x, scale), RMul(c.max_x, scale),
                      RMul(c.min_y, scale), RMul(c.max_y, scale))
    IN  translate(s, base_point)

recenter(b, new_center) == translate(b, CSub(new_center, center(b)))

rect(radius_x, radius_y, c) ==
    MkBounds(RAdd(RNeg(radius_x), c.re), RAdd(radius_x, c.re),
             RAdd(RNeg(radius_y), c.im), RAdd(radius_y, c.im))

----------------------------------------------------------------------------
(* The values a variable holds while the specification at hand does not use it *)

DefaultBounds == MkBounds(R(-1), R(1), R(-1), R(1))
NoBop == [op |-> "none", scale |-> R(1)]
NoGrid == [res_x |-> 0, res_y |-> 0, bounds |-> DefaultBounds, some |-> FALSE]
NoGop == [op |-> "none", n |-> 0, b |-> DefaultBounds, ok |-> TRUE]
NoPx == [op |-> "none", z |-> Cplx(R(0), R(0)), i |-> 0, j |-> 0,
         res |-> "none", x |-> R(0), y |-> R(0), w |-> Cplx(R(0), R(0))]
NoIter == [res_x |-> 0, res_y |-> 0, idx_x |-> 0, idx_y |-> 0]

BoundsIdle == bnd = DefaultBounds /\ bop = NoBop
GridIdle == grid = NoGrid /\ made = NoGrid /\ gop = NoGop /\ build = "release"
PixelIdle == pgrid = NoGrid /\ px = NoPx
IterIdle == it = NoIter /\ out = <<>>
ParIdle == pit = NoIter /\ bridge = "open" /\ handed = <<>> /\ wdone = <<>>

boundsVars == <<bnd, bop>>
gridVars == <<grid, made, gop, build>>
pixelVars == <<pgrid, px>>
iterVars == <<it, out>>
parVars == <<pit, bridge, handed, wdone>>

NoCall == [op |-> "none"]

ColoringIdle == coloring = NoCall /\ files = NoCall /\ cres = NoCall
CyclesIdle == cq = NoCall
BailoutIdle == eb = NoCall
InteriorIdle == ia = NoCall
JuliaIdle == parent = NoCall /\ julia = NoCall /\ jcall = NoCall /\ jnew = NoCall
RayIdle == ray = NoCall
TableIdle == ctable = NoCall
ChebyshevIdle == cheb = NoCall
QuadRatIdle == qr = NoCall
MarkingIdle == marking = NoCall

coloringVars == <<coloring, files, cres>>
cyclesVars == <<cq>>
bailoutVars == <<eb>>
interiorVars == <<ia>>
juliaVars == <<parent, julia, jcall, jnew>>
rayVars == <<ray>>
tableVars == <<ctable>>
chebyshevVars == <<cheb>>
quadRatVars == <<qr>>
markingVars == <<marking>>

\* The variables of the specifications of the Chebyshev family, of QuadRatPer4 and
\* of the marked curves.
ProfilesIdle == TableIdle /\ ChebyshevIdle /\ QuadRatIdle /\ MarkingIdle
profilesVars == <<tableVars, chebyshevVars, quadRatVars, markingVars>>

\* The variables of the family and coloring specifications, idle in the
\* specifications of the sampling grid, and the other way round.
FamilyIdle ==
    /\ ColoringIdle /\ CyclesIdle /\ BailoutIdle /\ InteriorIdle /\ JuliaIdle /\ RayIdle
    /\ ProfilesIdle
familyVars == <<coloringVars, cyclesVars, bailoutVars, interiorVars, juliaVars, rayVars,
                profilesVars>>
GridModelIdle == BoundsIdle /\ GridIdle /\ PixelIdle /\ IterIdle /\ ParIdle
gridModelVars == <<boundsVars, gridVars, pixelVars, iterVars, parVars>>

----------------------------------------------------------------------------
(* SpecBounds: a Bounds value under translate, zoom and recenter *)

\* The edges a Bounds may take: the halves between -MaxCoord and MaxCoord.
CoordSet == {Rat(n, 2) : n \in (-2 * MaxCoord)..(2 * MaxCoord)}

InRange(b) ==
    /\ b.min_x \in CoordSet
    /\ b.max_x \in CoordSet
    /\ b.min_y \in CoordSet
    /\ b.max_y \in CoordSet

\* max >= min on both axes.
Ordered(b) == RLe(b.min_x, b.max_x) /\ RLe(b.min_y, b.max_y)

InitBoundsSet ==
    {MkBounds(R(a), R(b), R(c), R(d)) : a \in -1..1, b \in -1..1, c \in -1..1, d \in -1..1}

Translations == {Cplx(R(a), R(b)) : a \in -1..1, b \in -1..1}
Scales == {R(-1), R(0), Rat(1, 2), R(2)}
BasePoints == {Cplx(R(0), R(0)), Cplx(R(1), R(-1))}
NewCenters == {Cplx(R(0), R(0)), Cplx(Rat(1, 2), R(-1))}

BoundsInit ==
    /\ bnd \in {b \in InitBoundsSet : Ordered(b)}
    /\ bop = [op |-> "new", scale |-> R(1)]
    /\ GridIdle /\ PixelIdle /\ IterIdle /\ ParIdle /\ FamilyIdle

Translate(t) ==
    /\ bnd' = translate(bnd, t)
    /\ InRange(bnd')
    /\ bop' = [op |-> "translate", scale |-> R(1)]
    /\ UNCHANGED <<gridVars, pixelVars, iterVars, parVars, familyVars>>

Zoom(scale, base_point) ==
    /\ bnd' = zoom(bnd, scale, base_point)
    /\ InRange(bnd')
    /\ bop' = [op |-> "zoom", scale |-> scale]
    /\ UNCHANGED <<gridVars, pixelVars, iterVars, parVars, familyVars>>

Recenter(c) ==
    /\ bnd' = recenter(bnd, c)
    /\ InRange(bnd')
    /\ bop' = [op |-> "recenter", scale |-> R(1)]
    /\ UNCHANGED <<gridVars, pixelVars, iterVars, parVars, familyVars>>

BoundsNext ==
    \/ \E t \in Translations : Translate(t)
    \/ \E s \in Scales, p \in BasePoints : Zoom(s, p)
    \/ \E c \in NewCenters : Recenter(c)

SpecBounds == BoundsInit /\ [][BoundsNext]_vars

\* C5 (as stated): every Bounds reachable by translate, zoom and recenter from one
\* with max >= min on both axes still has max >= min on both axes.
C5_OrderedAlways == Ordered(bnd)

\* C5 (amended): translate, recenter and zoom with scale >= 0 take a Bounds with
\* max >= min on both axes to one with max >= min on both axes.
C5_OrderedUnlessNegativeZoom ==
    [][(Ordered(bnd) /\ ~(bop'.op = "zoom" /\ RLt(bop'.scale, R(0))))
        => Ordered(bnd')]_vars

\* A zoom by 2 has produced a Bounds of positive extent on both axes.
C5_Witness ==
    /\ bop.op = "zoom"
    /\ bop.scale = R(2)
    /\ RLt(bnd.min_x, bnd.max_x)
    /\ RLt(bnd.min_y, bnd.max_y)

----------------------------------------------------------------------------
(* PointGrid *)

PointGrid_new(res_x, res_y, bounds) ==
    [res_x |-> res_x, res_y |-> res_y, bounds |-> bounds, some |-> TRUE]

\* The two ranges taken the wrong way round.
infer_height_swapped(res_x, bounds) ==
    as_usize(RDiv(RMul(as_Real(res_x), range_x(bounds)), range_y(bounds)))

infer_height(res_x, bounds) ==
    as_usize(RDiv(RMul(as_Real(res_x), range_y(bounds)), range_x(bounds)))

infer_width(res_y, bounds) ==
    as_usize(RDiv(RMul(as_Real(res_y), range_x(bounds)), range_y(bounds)))

new_by_res_x(res_x, bounds) == PointGrid_new(res_x, infer_height(res_x, bounds), bounds)
new_by_res_y(res_y, bounds) == PointGrid_new(infer_width(res_y, bounds), res_y, bounds)

new_with_same_height(g, bounds) == new_by_res_y(g.res_y, bounds)
new_with_same_width(g, bounds) == new_by_res_x(g.res_x, bounds)
with_width(g, res_x) == new_by_res_x(res_x, g.bounds)
with_height(g, res_y) == new_by_res_y(res_y, g.bounds)

\* The height inferred from the bounds being replaced instead of the new ones.
change_bounds_stale(g, new_bounds) ==
    [g EXCEPT !.res_y = infer_height(g.res_x, g.bounds), !.bounds = new_bounds]

change_bounds(g, new_bounds) ==
    [g EXCEPT !.res_y = infer_height(g.res_x, new_bounds), !.bounds = new_bounds]

resize_x(g, res_x) ==
    [g EXCEPT !.res_x = res_x, !.res_y = infer_height(res_x, g.bounds)]

resize_y(g, res_y) ==
    [g EXCEPT !.res_y = res_y, !.res_x = infer_width(res_y, g.bounds)]

pixel_width(g) == RDiv(range_x(g.bounds), as_Real(g.res_x))
pixel_height(g) == RDiv(range_y(g.bounds), as_Real(g.res_y))

----------------------------------------------------------------------------
(* Spec: a PointGrid under its resizing operations and constructors *)

\* The bounds a grid is given: Bounds::rect with radii 1..MaxRadius.
GridCenters == {Cplx(R(0), R(0)), Cplx(R(1), R(-1))}
GridBoundsSet ==
    {rect(R(rx), R(ry), c) : rx \in 1..MaxRadius, ry \in 1..MaxRadius, c \in GridCenters}

\* debug_assert!(res > 0) of infer_height / infer_width fails.
DebugAssertFails(res) == build = "debug" /\ res = 0

Init ==
    /\ grid \in {PointGrid_new(rx, ry, b) : rx \in 1..MaxRes, ry \in 1..MaxRes,
                                           b \in GridBoundsSet}
    /\ made = NoGrid
    /\ gop = [op |-> "new", n |-> 0, b |-> grid.bounds, ok |-> TRUE]
    /\ build \in {"debug", "release"}
    /\ BoundsIdle /\ PixelIdle /\ IterIdle /\ ParIdle /\ FamilyIdle

\* A panic ends the program: nothing runs after gop.ok = FALSE.
ResizeX(n) ==
    /\ gop.ok
    /\ grid' = resize_x(grid, n)
    /\ gop' = [op |-> "resize_x", n |-> n, b |-> grid.bounds, ok |-> TRUE]
    /\ made' = NoGrid
    /\ UNCHANGED <<build, boundsVars, pixelVars, iterVars, parVars, familyVars>>

ResizeY(n) ==
    /\ gop.ok
    /\ grid' = resize_y(grid, n)
    /\ gop' = [op |-> "resize_y", n |-> n, b |-> grid.bounds, ok |-> TRUE]
    /\ made' = NoGrid
    /\ UNCHANGED <<build, boundsVars, pixelVars, iterVars, parVars, familyVars>>

ChangeBounds(b) ==
    /\ gop.ok
    /\ IF DebugAssertFails(grid.res_x)
       THEN /\ gop' = [op |-> "change_bounds", n |-> 0, b |-> b, ok |-> FALSE]
            /\ UNCHANGED grid
       ELSE /\ gop' = [op |-> "change_bounds", n |-> 0, b |-> b, ok |-> TRUE]
            /\ grid' = change_bounds(grid, b)
    /\ made' = NoGrid
    /\ UNCHANGED <<build, boundsVars, pixelVars, iterVars, parVars, familyVars>>

WithWidth(n) ==
    /\ gop.ok
    /\ grid' = with_width(grid, n)
    /\ gop' = [op |-> "with_width", n |-> n, b |-> grid.bounds, ok |-> TRUE]
    /\ made' = NoGrid
    /\ UNCHANGED <<build, boundsVars, pixelVars, iterVars, parVars, familyVars>>

WithHeight(n) ==
    /\ gop.ok
    /\ grid' = with_height(grid, n)
    /\ gop' = [op |-> "with_height", n |-> n, b |-> grid.bounds, ok |-> TRUE]
    /\ made' = NoGrid
    /\ UNCHANGED <<build, boundsVars, pixelVars, iterVars, parVars, familyVars>>

NewWithSameHeight(b) ==
    /\ gop.ok
    /\ IF DebugAssertFails(grid.res_y)
       THEN /\ gop' = [op |-> "new_with_same_height", n |-> 0, b |-> b, ok |-> FALSE]
            /\ made' = NoGrid
       ELSE /\ gop' = [op |-> "new_with_same_height", n |-> 0, b |-> b, ok |-> TRUE]
            /\ made' = new_with_same_height(grid, b)
    /\ UNCHANGED <<grid, build, boundsVars, pixelVars, iterVars, parVars, familyVars>>

NewWithSameWidth(b) ==
    /\ gop.ok
    /\ IF DebugAssertFails(grid.res_x)
       THEN /\ gop' = [op |-> "new_with_same_width", n |-> 0, b |-> b, ok |-> FALSE]
            /\ made' = NoGrid
       ELSE /\ gop' = [op |-> "new_with_same_width", n |-> 0, b |-> b, ok |-> TRUE]
            /\ made' = new_with_same_width(grid, b)
    /\ UNCHANGED <<grid, build, boundsVars, pixelVars, iterVars, parVars, familyVars>>

Next ==
    \/ \E n \in 1..MaxRes : ResizeX(n)
    \/ \E n \in 1..MaxRes : ResizeY(n)
    \/ \E b \in GridBoundsSet : ChangeBounds(b)
    \/ \E n \in 1..MaxRes : WithWidth(n)
    \/ \E n \in 1..MaxRes : WithHeight(n)
    \/ \E b \in GridBoundsSet : NewWithSameHeight(b)
    \/ \E b \in GridBoundsSet : NewWithSameWidth(b)

Spec == Init /\ [][Next]_vars

\* k = floor(q) for a rational q >= 0.
IsFloor(k, q) == RLe(R(k), q) /\ RLt(q, R(k + 1))

\* C3: every PointGrid reachable from one with res_x, res_y >= 1 and non-degenerate
\* bounds by resize_x(n), resize_y(n) with n >= 1, change_bounds(b), with_width,
\* with_height, new_with_same_height(b) and new_with_same_width(b) with
\* non-degenerate b has res_x * res_y > 0.
C3_ResolutionPositive ==
    /\ grid.res_x * grid.res_y > 0
    /\ made.some => made.res_x * made.res_y > 0

\* C9: resize_x(n) and resize_y(m) leave the four edges of the Bounds as they were,
\* give the requested axis exactly the requested resolution and recompute the other
\* axis as floor(n * range_y / range_x), resp. floor(m * range_x / range_y).
C9_ResizeChangesOnlyResolution ==
    [][/\ (gop'.op = "resize_x" /\ gop'.ok) =>
            /\ grid'.bounds = grid.bounds
            /\ grid'.res_x = gop'.n
            /\ IsFloor(grid'.res_y,
                       RDiv(RMul(R(gop'.n), range_y(grid.bounds)), range_x(grid.bounds)))
       /\ (gop'.op = "resize_y" /\ gop'.ok) =>
            /\ grid'.bounds = grid.bounds
            /\ grid'.res_y = gop'.n
            /\ IsFloor(grid'.res_x,
                       RDiv(RMul(R(gop'.n), range_x(grid.bounds)), range_y(grid.bounds)))
      ]_vars

\* resize_x(3) on bounds half as high as wide: the height becomes floor(3/2) = 1.
C9_Witness ==
    /\ gop.op = "resize_x"
    /\ gop.n = 3
    /\ grid.res_x = 3
    /\ grid.res_y = 1
    /\ RMul(R(2), range_y(grid.bounds)) = range_x(grid.bounds)

\* C10: change_bounds(b) keeps res_x, sets the bounds to b and recomputes
\* res_y = floor(res_x * range_y(b) / range_x(b)); new_with_same_height(b) returns a
\* grid with the same res_y, bounds b and res_x = floor(res_y * range_x(b) / range_y(b))
\* and leaves the grid it is called on as it was.
C10_ChangeBoundsRecomputesPairedAxis ==
    [][/\ (gop'.op = "change_bounds" /\ gop'.ok) =>
            /\ grid'.res_x = grid.res_x
            /\ grid'.bounds = gop'.b
            /\ IsFloor(grid'.res_y,
                       RDiv(RMul(R(grid.res_x), range_y(gop'.b)), range_x(gop'.b)))
       /\ (gop'.op = "new_with_same_height" /\ gop'.ok) =>
            /\ grid' = grid
            /\ made'.some
            /\ made'.res_y = grid.res_y
            /\ made'.bounds = gop'.b
            /\ IsFloor(made'.res_x,
                       RDiv(RMul(R(grid.res_y), range_x(gop'.b)), range_y(gop'.b)))
      ]_vars

\* change_bounds to bounds twice as high as wide on a grid 3 wide: res_y becomes 6.
C10_Witness ==
    /\ gop.op = "change_bounds"
    /\ gop.ok
    /\ grid.bounds = gop.b
    /\ grid.res_x = 3
    /\ grid.res_y = 6
    /\ range_y(grid.bounds) = RMul(R(2), range_x(grid.bounds))

----------------------------------------------------------------------------
(* SpecPixel: map_pixel, locate_point and locate_point_safe of one PointGrid *)

map_pixel(g, pixel_x, pixel_y) ==
    Cplx(mul_add(as_Real(pixel_x), pixel_width(g), g.bounds.min_x),
         mul_add(as_Real(pixel_y), pixel_height(g), g.bounds.min_y))

\* The column computed with the height of a pixel.
locate_point_height(g, z) ==
    LET x == RDiv(RSub(z.re, g.bounds.min_x), pixel_height(g))
        y == RDiv(RSub(z.im, g.bounds.min_y), pixel_height(g))
    IN  <<as_f32(x),
          as_f32(RSub(as_f32(RSub(as_f32(R(g.res_y)), R(1))), as_f32(y)))>>

\* [x as f32, self.res_y as f32 - 1. - y as f32], the subtractions done in f32.
locate_point(g, z) ==
    LET x == RDiv(RSub(z.re, g.bounds.min_x), pixel_width(g))
        y == RDiv(RSub(z.im, g.bounds.min_y), pixel_height(g))
    IN  <<as_f32(x),
          as_f32(RSub(as_f32(RSub(as_f32(R(g.res_y)), R(1))), as_f32(y)))>>

NoneResult == [res |-> "None", i |-> 0, j |-> 0]
SomeResult(i, j) == [res |-> "Some", i |-> i, j |-> j]

\* The fourth test compares z.re, not z.im, with min_y. Past the tests
\* z.im < max_y, so y as usize <= res_y - 1 and the subtraction cannot underflow
\* (res_y >= 1).
locate_point_safe(g, z) ==
    IF \/ RLe(g.bounds.max_x, z.re)
       \/ RLt(z.re, g.bounds.min_x)
       \/ RLe(g.bounds.max_y, z.im)
       \/ RLt(z.re, g.bounds.min_y)
    THEN NoneResult
    ELSE LET x == RDiv(RSub(z.re, g.bounds.min_x), pixel_width(g))
             y == RDiv(RSub(z.im, g.bounds.min_y), pixel_height(g))
         IN  SomeResult(as_usize(x), g.res_y - 1 - as_usize(y))

PixPoints == {Cplx(R(a), R(b)) : a \in (-MaxPoint)..MaxPoint, b \in (-MaxPoint)..MaxPoint}

PixelInit ==
    /\ pgrid \in {PointGrid_new(rx, ry, b) : rx \in 1..MaxPixRes, ry \in 1..MaxPixRes,
                                            b \in GridBoundsSet}
    /\ px = NoPx
    /\ BoundsIdle /\ GridIdle /\ IterIdle /\ ParIdle /\ FamilyIdle

\* The mapping functions take &self and keep no state: a behaviour evaluates one
\* call on the grid drawn, and map_pixel may follow locate_point on its result.
MapPixel(i, j) ==
    /\ px.op = "none"
    /\ px' = [NoPx EXCEPT !.op = "map_pixel", !.i = i, !.j = j,
                          !.w = map_pixel(pgrid, i, j)]
    /\ UNCHANGED <<pgrid, boundsVars, gridVars, iterVars, parVars, familyVars>>

LocatePoint(z) ==
    /\ px.op = "none"
    /\ px' = [NoPx EXCEPT !.op = "locate_point", !.z = z,
                          !.x = locate_point(pgrid, z)[1],
                          !.y = locate_point(pgrid, z)[2]]
    /\ UNCHANGED <<pgrid, boundsVars, gridVars, iterVars, parVars, familyVars>>

\* map_pixel on the coordinates the last locate_point returned, cast to usize.
MapLocated ==
    /\ px.op = "locate_point"
    /\ px' = [px EXCEPT !.op = "map_located",
                        !.i = as_usize(px.x), !.j = as_usize(px.y),
                        !.w = map_pixel(pgrid, as_usize(px.x), as_usize(px.y))]
    /\ UNCHANGED <<pgrid, boundsVars, gridVars, iterVars, parVars, familyVars>>

LocatePointSafe(z) ==
    /\ px.op = "none"
    /\ LET r == locate_point_safe(pgrid, z)
       IN  px' = [NoPx EXCEPT !.op = "locate_point_safe", !.z = z,
                              !.res = r.res, !.i = r.i, !.j = r.j]
    /\ UNCHANGED <<pgrid, boundsVars, gridVars, iterVars, parVars, familyVars>>

\* locate_point_safe on the point the last map_pixel returned; the index found is
\* kept in x and y.
LocateMapped ==
    /\ px.op = "map_pixel"
    /\ LET r == locate_point_safe(pgrid, px.w)
       IN  px' = [px EXCEPT !.op = "locate_mapped", !.z = px.w, !.res = r.res,
                           !.x = R(r.i), !.y = R(r.j)]
    /\ UNCHANGED <<pgrid, boundsVars, gridVars, iterVars, parVars, familyVars>>

PixelNext ==
    \/ \E i \in 0..pgrid.res_x, j \in 0..pgrid.res_y : MapPixel(i, j)
    \/ \E z \in PixPoints \cup {center(pgrid.bounds)} : LocatePoint(z)
    \/ MapLocated
    \/ \E z \in PixPoints : LocatePointSafe(z)
    \/ LocateMapped

SpecPixel == PixelInit /\ [][PixelNext]_vars

\* z lies outside the bounds b.
OutsideBounds(z, b) ==
    \/ RLt(z.re, b.min_x)
    \/ RLe(b.max_x, z.re)
    \/ RLt(z.im, b.min_y)
    \/ RLe(b.max_y, z.im)

\* C2: locate_point_safe(z) returns None for every z outside the grid's Bounds
\* (z.re < min_x, z.re >= max_x, z.im < min_y or z.im >= max_y).
C2_NoneOutsideBounds ==
    (px.op = "locate_point_safe" /\ OutsideBounds(px.z, pgrid.bounds))
        => px.res = "None"

\* The centre of the bounds falls on a lattice point: both resolutions are even.
CenterOnLattice(g) == g.res_x % 2 = 0 /\ g.res_y % 2 = 0

\* map_pixel was applied to what locate_point returned for the centre of the bounds,
\* and the centre is a lattice point.
CenterRoundTrip ==
    /\ px.op = "map_located"
    /\ px.z = center(pgrid.bounds)
    /\ CenterOnLattice(pgrid)

C27_LocateSafeInvertsMapPixel ==
    /\ px.op = "locate_mapped" /\ px.i < pgrid.res_x /\ px.j < pgrid.res_y =>
           /\ px.res = "Some"
           /\ px.x = R(px.i)
           /\ px.y = R(pgrid.res_y - 1 - px.j)
    /\ px.op = "locate_point_safe" =>
           /\ (/\ RLe(pgrid.bounds.min_x, px.z.re) /\ RLt(px.z.re, pgrid.bounds.max_x)
               /\ RLe(pgrid.bounds.min_y, px.z.im) /\ RLt(px.z.im, pgrid.bounds.max_y))
                  => px.res = "Some"
           /\ px.res = "Some" => px.i < pgrid.res_x /\ px.j < pgrid.res_y

----------------------------------------------------------------------------
(* SpecIter: one PointGridIterator, next() called again and again *)

\* The iterator keeps res_x, res_y and the index of the item yielded last. The
\* complex value of an item, idx * step + min, is a function of its index that
\* no later call reads: an item is modelled by its index.
PointGridIterator_new(res_x, res_y, bounds) ==
    [res_x |-> res_x, res_y |-> res_y, idx_x |-> 0, idx_y |-> 0]

iter(g) == PointGridIterator_new(g.res_x, g.res_y, g.bounds)

PanicResult == [res |-> "Panic", i |-> 0, j |-> 0]

\* The test made on the column instead of the row.
next_column_test(i) ==
    LET idx_x == i.idx_x + 1
    IN  IF i.res_x = 0
        THEN [it |-> [i EXCEPT !.idx_x = idx_x], r |-> PanicResult]
        ELSE LET idx_y == i.idx_y + (idx_x \div i.res_x)
             IN  IF idx_x = i.res_x /\ idx_y = i.res_y
                 THEN [it |-> [i EXCEPT !.idx_x = idx_x, !.idx_y = idx_y],
                       r |-> NoneResult]
                 ELSE [it |-> [i EXCEPT !.idx_x = idx_x % i.res_x, !.idx_y = idx_y],
                       r |-> SomeResult(idx_x % i.res_x, idx_y)]

\* One call of next(): the iterator after the call and what the call returned.
\* idx_x / res_x panics (division by zero) when res_x = 0, after idx_x was
\* incremented. On None the function returns before idx_x is reduced.
next(i) ==
    LET idx_x == i.idx_x + 1
    IN  IF i.res_x = 0
        THEN [it |-> [i EXCEPT !.idx_x = idx_x], r |-> PanicResult]
        ELSE LET idx_y == i.idx_y + (idx_x \div i.res_x)
             IN  IF idx_y = i.res_y
                 THEN [it |-> [i EXCEPT !.idx_x = idx_x, !.idx_y = idx_y],
                       r |-> NoneResult]
                 ELSE [it |-> [i EXCEPT !.idx_x = idx_x % i.res_x, !.idx_y = idx_y],
                       r |-> SomeResult(idx_x % i.res_x, idx_y)]

\* The grids the constructors give for a requested resolution of 1..MaxRes and
\* non-degenerate bounds.
ConstructedGrids ==
    {PointGrid_new(rx, ry, b) : rx \in 1..MaxRes, ry \in 1..MaxRes, b \in GridBoundsSet}
    \cup {new_by_res_x(n, b) : n \in 1..MaxRes, b \in GridBoundsSet}
    \cup {new_by_res_y(n, b) : n \in 1..MaxRes, b \in GridBoundsSet}

IterInit ==
    /\ it \in {iter(g) : g \in ConstructedGrids}
    /\ out = <<>>
    /\ BoundsIdle /\ GridIdle /\ PixelIdle /\ ParIdle /\ FamilyIdle

\* A panic ends the program: no call follows it.
IterNext ==
    /\ Len(out) < MaxCalls
    /\ IF out = <<>> THEN TRUE ELSE out[Len(out)].res # "Panic"
    /\ it' = next(it).it
    /\ out' = Append(out, next(it).r)
    /\ UNCHANGED <<boundsVars, gridVars, pixelVars, parVars, familyVars>>

SpecIter == IterInit /\ [][IterNext]_vars

\* The lattice of a grid res_x wide and res_y high.
Lattice(res_x, res_y) == {<<i, j>> : i \in 0..(res_x - 1), j \in 0..(res_y - 1)}

\* The indices to_array fills: those of an Array2 of shape (res_x, res_y).
to_array_indices(res_x, res_y) ==
    {<<i, j>> : i \in {a \in 0..res_x : a < res_x}, j \in {a \in 0..res_y : a < res_y}}

HasNone(s) == \E p \in 1..Len(s) : s[p].res = "None"

\* The number of results before the first None (all of them when there is none).
BeforeNone(s) ==
    IF HasNone(s)
    THEN (CHOOSE p \in 1..Len(s) :
              s[p].res = "None" /\ \A q \in 1..(p - 1) : s[q].res # "None") - 1
    ELSE Len(s)

\* (i, j) comes before (i2, j2) in row-major order.
RowMajorBefore(a, b) == a.j < b.j \/ (a.j = b.j /\ a.i < b.i)

\* C1: for res_x >= 1 and res_y >= 1, a fresh traversal run to its first None yields
\* one pair for every lattice index (i, j), each exactly once: res_x * res_y pairs,
\* the index set that to_array fills.
C1_TraversalCoversLattice ==
    (it.res_x >= 1 /\ it.res_y >= 1 /\ HasNone(out)) =>
        LET k == BeforeNone(out)
        IN  /\ k = it.res_x * it.res_y
            /\ \A p \in 1..k : out[p].res = "Some"
            /\ {<<out[p].i, out[p].j>> : p \in 1..k} = Lattice(it.res_x, it.res_y)
            /\ {<<out[p].i, out[p].j>> : p \in 1..k} = to_array_indices(it.res_x, it.res_y)

\* C6: before its first None a traversal yields its pairs in strictly increasing
\* row-major order, and every yielded index lies inside the lattice.
C6_RowMajorInsideLattice ==
    LET k == BeforeNone(out)
    IN  /\ \A p \in 1..k :
               out[p].res = "Some" => <<out[p].i, out[p].j>> \in Lattice(it.res_x, it.res_y)
        /\ \A p \in 1..k, q \in 1..k :
               (p < q /\ out[p].res = "Some" /\ out[q].res = "Some")
                   => RowMajorBefore(out[p], out[q])

\* C7: on every grid the constructors give for a requested resolution >= 1 and
\* non-degenerate bounds, next() has returned None within res_x * res_y + 1 calls.
C7_NoneWithinLatticeSizePlusOne ==
    Len(out) >= it.res_x * it.res_y + 1 => HasNone(out)

\* C26: once next() has returned None, every later call on the same iterator
\* returns None too: no pair is produced after exhaustion.
C26_FusedAfterNone ==
    \A k \in 1..Len(out) :
        out[k].res = "None" => \A m \in k..Len(out) : out[m].res = "None"

----------------------------------------------------------------------------
(* SpecPar: par_iter, the iterator bridged onto a pool of workers *)

Workers == 1..NumWorkers

ParInit ==
    /\ pit \in {iter(g) : g \in ConstructedGrids}
    /\ bridge = "open"
    /\ handed = [w \in Workers |-> <<>>]
    /\ wdone = [w \in Workers |-> FALSE]
    /\ BoundsIdle /\ GridIdle /\ PixelIdle /\ IterIdle /\ FamilyIdle

TotalHanded == LET RECURSIVE Sum(_)
                   Sum(w) == IF w = 0 THEN 0 ELSE Len(handed[w]) + Sum(w - 1)
               IN  Sum(NumWorkers)

\* One turn of a worker's loop, the whole turn under the bridge's mutex: the bridge
\* holds the iterator fused, so once next() has returned None it is not called
\* again and every worker that asks is told None; a panic in next() poisons the
\* mutex and ends the worker, and the others leave when they find it poisoned.
Take(w) ==
    /\ ~wdone[w]
    /\ IF bridge # "open"
       THEN /\ wdone' = [wdone EXCEPT ![w] = TRUE]
            /\ UNCHANGED <<pit, bridge, handed>>
       ELSE LET n == next(pit)
            IN  /\ pit' = n.it
                /\ IF n.r.res = "Some"
                   THEN /\ TotalHanded < MaxHanded
                        /\ handed' = [handed EXCEPT ![w] = Append(@, <<n.r.i, n.r.j>>)]
                        /\ UNCHANGED <<bridge, wdone>>
                   ELSE /\ bridge' = IF n.r.res = "None" THEN "fused" ELSE "poisoned"
                        /\ wdone' = [wdone EXCEPT ![w] = TRUE]
                        /\ UNCHANGED handed
    /\ UNCHANGED <<boundsVars, gridVars, pixelVars, iterVars, familyVars>>

ParNext == \E w \in Workers : Take(w)

SpecPar == ParInit /\ [][ParNext]_vars

\* The indices a sequential traversal of the iterator i yields before its first
\* None (or its panic), at most fuel of them.
RECURSIVE SeqYield(_, _)
SeqYield(i, fuel) ==
    IF fuel = 0 THEN {}
    ELSE LET n == next(i)
         IN  IF n.r.res = "Some"
             THEN {<<n.r.i, n.r.j>>} \cup SeqYield(n.it, fuel - 1)
             ELSE {}

\* Every index handed to some worker.
HandedSet == UNION {{handed[w][p] : p \in 1..Len(handed[w])} : w \in Workers}

\* C8: over all workers together and under every interleaving the bridge hands out
\* exactly the pairs a sequential traversal yields: no index goes to two workers
\* (or twice to one), none is lost, and none lies outside the lattice.
C8_ParallelHandsOutSequentialPairs ==
    /\ \A w \in Workers : \A p \in 1..Len(handed[w]) :
           handed[w][p] \in Lattice(pit.res_x, pit.res_y)
    /\ \A w \in Workers, v \in Workers : \A p \in 1..Len(handed[w]), q \in 1..Len(handed[v]) :
           (handed[w][p] = handed[v][q]) => (w = v /\ p = q)
    /\ (\A w \in Workers : wdone[w]) =>
           HandedSet = SeqYield(iter(pit), MaxHanded + 1)

----------------------------------------------------------------------------
(* Coloring: the palette and its persistence (common/src/coloring.rs) *)

\* Largest number of key/value entries of a palette document on disk.
MaxDocLen == 2

\* The colours a palette field may hold, and a value that is not a colour.
Colors == {"black", "white"}
NotAColor == "?"

\* The fields of a ColorPalette that a document must give.
PaletteKeys == {"in_color", "wandering_color"}

ColorPalette(in_color, wandering_color) ==
    [in_color |-> in_color, wandering_color |-> wandering_color]
Palettes == {ColorPalette(i, w) : i \in Colors, w \in Colors}

Algorithms == {"Solid", "Period"}

\* Coloring::new
Coloring_new(algorithm, palette) == [algorithm |-> algorithm, palette |-> palette]

\* A document is a sequence of <<key, value>> entries.
DocEntries == {<<k, v>> : k \in PaletteKeys, v \in Colors \cup {NotAColor}}
Docs == UNION {[1..n -> DocEntries] : n \in 0..MaxDocLen}

\* A file: absent, not valid UTF-8, or text holding a document.
MissingFile == [kind |-> "missing", content |-> <<>>]
BinaryFile == [kind |-> "binary", content |-> <<>>]
TextFile(doc) == [kind |-> "text", content |-> doc]
Files == {MissingFile, BinaryFile} \cup {TextFile(d) : d \in Docs}

Paths == {"palette.toml"}

Ok(v) == [err |-> FALSE, val |-> v]
Err == [err |-> TRUE, val |-> <<>>]

\* std::fs::read_to_string
read_to_string(file) == IF file.kind = "text" THEN Ok(file.content) ELSE Err

\* toml::from_str::<ColorPalette>: the entries are read in order into a table
\* (a key given twice is an error), then every field is taken from the table
\* (a missing field or a value of the wrong type is an error).
RECURSIVE toml_table(_, _)
toml_table(doc, table) ==
    IF doc = <<>> THEN Ok(table)
    ELSE LET k == Head(doc)[1]
             v == Head(doc)[2]
         IN  IF table[k] # "" THEN Err
             ELSE toml_table(Tail(doc), [table EXCEPT ![k] = v])

toml_from_str(doc) ==
    LET t == toml_table(doc, [k \in PaletteKeys |-> ""])
    IN  IF t.err THEN Err
        ELSE IF \E k \in PaletteKeys : t.val[k] \notin Colors THEN Err
        ELSE Ok(ColorPalette(t.val["in_color"], t.val["wandering_color"]))

\* toml::to_string(&ColorPalette)
toml_to_string(palette) ==
    <<(<<"in_color", palette.in_color>>), (<<"wandering_color", palette.wandering_color>>)>>

\* A palette assigned before the content is parsed, and so lost when parsing fails.
load_palette_eager(self, file) ==
    LET content == read_to_string(file)
    IN  IF content.err THEN [res |-> "Err", self |-> self]
        ELSE LET palette == toml_from_str(content.val)
                 cleared == [self EXCEPT !.palette = ColorPalette("black", "black")]
             IN  IF palette.err THEN [res |-> "Err", self |-> cleared]
                 ELSE [res |-> "Ok", self |-> [self EXCEPT !.palette = palette.val]]

\* Coloring::load_palette on the file found at the path.
load_palette(self, file) ==
    LET content == read_to_string(file)
    IN  IF content.err THEN [res |-> "Err", self |-> self]
        ELSE LET palette == toml_from_str(content.val)
             IN  IF palette.err THEN [res |-> "Err", self |-> self]
                 ELSE [res |-> "Ok", self |-> [self EXCEPT !.palette = palette.val]]

\* Coloring::save_to_file: File::create fails and leaves the file as it is, or it
\* truncates the file and write_all writes all of the text, or fails after a part of it.
SaveOutcomes == {"ok", "create_fails", "write_fails"}
save_to_file(self, file, outcome, written) ==
    LET toml_string == toml_to_string(self.palette)
    IN  CASE outcome = "create_fails" -> [res |-> "Err", file |-> file]
          [] outcome = "write_fails" ->
                [res |-> "Err", file |-> TextFile(SubSeq(toml_string, 1, written))]
          [] OTHER -> [res |-> "Ok", file |-> TextFile(toml_string)]

CRes(op, path, res) == [op |-> op, path |-> path, res |-> res]

ColoringInit ==
    /\ coloring \in {Coloring_new(a, p) : a \in Algorithms, p \in Palettes}
    /\ files \in [Paths -> Files]
    /\ cres = CRes("new", "", "Ok")
    /\ GridModelIdle
    /\ CyclesIdle /\ BailoutIdle /\ InteriorIdle /\ JuliaIdle /\ RayIdle /\ ProfilesIdle

ColoringRest == <<gridModelVars, cyclesVars, bailoutVars, interiorVars, juliaVars, rayVars,
    profilesVars>>

LoadPalette(path) ==
    LET r == load_palette(coloring, files[path])
    IN  /\ coloring' = r.self
        /\ cres' = CRes("load_palette", path, r.res)
        /\ UNCHANGED <<files, ColoringRest>>

SaveToFile(path, outcome, written) ==
    LET r == save_to_file(coloring, files[path], outcome, written)
    IN  /\ files' = [files EXCEPT ![path] = r.file]
        /\ cres' = CRes("save_to_file", path, r.res)
        /\ UNCHANGED <<coloring, ColoringRest>>

SetPalette(palette) ==
    /\ coloring' = [coloring EXCEPT !.palette = palette]
    /\ cres' = CRes("set_palette", "", "Ok")
    /\ UNCHANGED <<files, ColoringRest>>

SetInteriorAlgorithm(algorithm) ==
    /\ coloring' = [coloring EXCEPT !.algorithm = algorithm]
    /\ cres' = CRes("set_interior_algorithm", "", "Ok")
    /\ UNCHANGED <<files, ColoringRest>>

ColoringNext ==
    \/ \E path \in Paths : LoadPalette(path)
    \/ \E path \in Paths, outcome \in SaveOutcomes, written \in 0..1 :
            SaveToFile(path, outcome, written)
    \/ \E palette \in Palettes : SetPalette(palette)
    \/ \E algorithm \in Algorithms : SetInteriorAlgorithm(algorithm)

SpecColoring == ColoringInit /\ [][ColoringNext]_vars

\* What the claim calls a failure, stated on the file and not by running the loader:
\* the file cannot be read as text, or its document is not exactly one well-typed
\* entry per palette field.
ReadFails(file) == file.kind # "text"
ParseFails(doc) ==
    ~ /\ Len(doc) = Cardinality(PaletteKeys)
      /\ \A k \in PaletteKeys : \E i \in 1..Len(doc) : doc[i][1] = k /\ doc[i][2] \in Colors
FieldOf(doc, k) == doc[CHOOSE i \in 1..Len(doc) : doc[i][1] = k][2]

\* C11: load_palette replaces the palette only on success. When reading the file or
\* parsing its content fails it returns Err and leaves palette and interior algorithm
\* as they were; on success it returns Ok, the palette is the one the file gives and
\* the interior algorithm is unchanged.
C11_LoadReplacesOnlyOnSuccess ==
    [][cres'.op = "load_palette" =>
          LET file == files[cres'.path]
          IN  /\ coloring'.algorithm = coloring.algorithm
              /\ IF ReadFails(file) \/ ParseFails(file.content)
                 THEN cres'.res = "Err" /\ coloring' = coloring
                 ELSE /\ cres'.res = "Ok"
                      /\ coloring'.palette.in_color = FieldOf(file.content, "in_color")
                      /\ coloring'.palette.wandering_color
                            = FieldOf(file.content, "wandering_color")]_vars

\* C11 witness: a load has failed on a file that exists and is text, and the palette in
\* memory is not the default nor what a partial parse of the file would give.
C11_Witness ==
    /\ cres.op = "load_palette" /\ cres.res = "Err"
    /\ files[cres.path].kind = "text" /\ Len(files[cres.path].content) = 1
    /\ coloring.palette = ColorPalette("white", "white")
    /\ coloring.algorithm = "Period"

----------------------------------------------------------------------------
(* Complex arithmetic on exact rationals *)

CZero == Cplx(R(0), R(0))
COne == Cplx(R(1), R(0))
CReal(r) == Cplx(r, R(0))
CAdd(a, b) == Cplx(RAdd(a.re, b.re), RAdd(a.im, b.im))
CMul(a, b) ==
    Cplx(RSub(RMul(a.re, b.re), RMul(a.im, b.im)),
         RAdd(RMul(a.re, b.im), RMul(a.im, b.re)))
\* r * z for a real r.
CScale(r, z) == Cplx(RMul(r, z.re), RMul(r, z.im))
norm_sqr(z) == RAdd(RMul(z.re, z.re), RMul(z.im, z.im))
\* 1 / z for z # 0.
CInv(z) ==
    Cplx(RDiv(z.re, norm_sqr(z)), RDiv(RNeg(z.im), norm_sqr(z)))

----------------------------------------------------------------------------
(* Cycles and precycles in closed form                                      *)
(* (profiles/src/polynomials/mandelbrot.rs, rational_maps/quad_rat_per_4.rs) *)

\* Parameters c have real and imaginary part k/2 with |k| <= 2 * MaxParam.
MaxParam == 1

\* Largest period and preperiod queried.
MaxPeriod == 8
MaxPreperiod == 4

Halves == {Rat(k, 2) : k \in (-2 * MaxParam)..(2 * MaxParam)}
CycleParams == {Cplx(x, y) : x \in Halves, y \in Halves}
Periods == 0..MaxPeriod
Preperiods == 0..MaxPreperiod

\* The values a query returns. A value in closed form is a + b * sqrt(d) for complex
\* a, b, d, where sqrt(d) is the square root Cplx::sqrt returns: a number whose
\* square is d. The other values are kept by name: the idx-th root solve_polynomial
\* or solve_cubic returned, its square root or the negative of it, the idx-th value
\* of Cardano's formula, or a value that is not finite.
Val(kind, a, b, d, idx) == [kind |-> kind, a |-> a, b |-> b, d |-> d, idx |-> idx]
Closed(a, b, d) == Val("closed", a, b, d, 0)
Exact(a) == Closed(a, CZero, CZero)
Named(kind, idx) == Val(kind, CZero, CZero, CZero, idx)

\* solve_polynomial(coeffs) and solve_cubic: all the roots of a polynomial given by
\* its num_coeffs coefficients in ascending degree.
solve_polynomial(num_coeffs) == [i \in 1..(num_coeffs - 1) |-> Named("root", i)]

\* zs.iter().map(|z| z.sqrt()).flat_map(|w| [w, -w]).collect()
sqrt_and_negatives(zs) ==
    [i \in 1..(2 * Len(zs)) |->
        IF i % 2 = 1 THEN Named("sqrt_root", (i + 1) \div 2)
                     ELSE Named("neg_sqrt_root", i \div 2)]

\* Mandelbrot::cycles
Mandelbrot_cycles(period) ==
    CASE period = 1 -> <<Exact(CZero)>>
      [] period = 2 -> <<Exact(CNeg(COne))>>
      [] period = 3 -> solve_polynomial(4)
      [] period = 4 -> solve_polynomial(6)
      [] period = 5 -> solve_polynomial(16)
      [] OTHER -> <<>>

\* A sign slip in the discriminant of the fixed points.
Mandelbrot_cycles_child_sign(c, period) ==
    CASE period = 1 ->
            LET d == CAdd(COne, CScale(R(4), c))
            IN  <<Closed(CReal(Rat(1, 2)), CReal(Rat(1, 2)), d),
                  Closed(CReal(Rat(1, 2)), CReal(Rat(-1, 2)), d)>>
      [] period = 2 ->
            LET d == CAdd(CReal(R(-3)), CScale(R(4), c))
            IN  <<Closed(CReal(Rat(-1, 2)), CReal(Rat(1, 2)), d),
                  Closed(CReal(Rat(-1, 2)), CReal(Rat(-1, 2)), d)>>
      [] OTHER -> <<>>

\* Mandelbrot::cycles_child
Mandelbrot_cycles_child(c, period) ==
    CASE period = 1 ->
            \* u = (1 - 4c).sqrt(); [0.5 * (1 + u), 0.5 * (1 - u)]
            LET d == CSub(COne, CScale(R(4), c))
            IN  <<Closed(CReal(Rat(1, 2)), CReal(Rat(1, 2)), d),
                  Closed(CReal(Rat(1, 2)), CReal(Rat(-1, 2)), d)>>
      [] period = 2 ->
            \* u = (-3 - 4c).sqrt(); [0.5 * (-1 + u), -0.5 * (1 + u)]
            LET d == CSub(CReal(R(-3)), CScale(R(4), c))
            IN  <<Closed(CReal(Rat(-1, 2)), CReal(Rat(1, 2)), d),
                  Closed(CReal(Rat(-1, 2)), CReal(Rat(-1, 2)), d)>>
      [] period = 3 -> solve_polynomial(7)
      [] period = 4 -> solve_polynomial(13)
      [] period = 5 -> solve_polynomial(31)
      [] period = 6 -> solve_polynomial(55)
      [] OTHER -> <<>>

\* Mandelbrot::precycles_child
Mandelbrot_precycles_child(c, preperiod, period) ==
    CASE preperiod = 2 /\ period = 1 ->
            \* u = 0.5 * (1 - 4c).sqrt(); v0 = (-0.5 + u - c).sqrt(); v1 = (-0.5 - u - c).sqrt()
            LET d == CSub(COne, CScale(R(4), c))
                a == CSub(CReal(Rat(-1, 2)), c)
            IN  <<Val("sqrt", a, CReal(Rat(1, 2)), d, 0), Val("neg_sqrt", a, CReal(Rat(1, 2)), d, 0),
                  Val("sqrt", a, CReal(Rat(-1, 2)), d, 0), Val("neg_sqrt", a, CReal(Rat(-1, 2)), d, 0)>>
      [] preperiod = 2 /\ period = 2 ->
            \* u = 0.5 * (-3 - 4c).sqrt(); v0 = (0.5 + u - c).sqrt(); v1 = (0.5 - u - c).sqrt()
            LET d == CSub(CReal(R(-3)), CScale(R(4), c))
                a == CSub(CReal(Rat(1, 2)), c)
            IN  <<Val("sqrt", a, CReal(Rat(1, 2)), d, 0), Val("neg_sqrt", a, CReal(Rat(1, 2)), d, 0),
                  Val("sqrt", a, CReal(Rat(-1, 2)), d, 0), Val("neg_sqrt", a, CReal(Rat(-1, 2)), d, 0)>>
      [] preperiod = 2 /\ period = 3 -> sqrt_and_negatives(solve_polynomial(7))
      [] preperiod = 2 /\ period = 4 -> sqrt_and_negatives(solve_polynomial(13))
      [] preperiod = 3 /\ period = 3 -> sqrt_and_negatives(solve_polynomial(13))
      [] preperiod = 3 /\ period = 4 -> sqrt_and_negatives(solve_polynomial(25))
      [] OTHER -> <<>>

\* The period matched as a range that takes in 0.
QuadRatPer4_cycles_child_range(c, period) ==
    IF period <= 1 THEN <<Named("cardano", 1), Named("cardano", 2), Named("cardano", 3)>>
    ELSE <<>>

\* QuadRatPer4::cycles_child
QuadRatPer4_cycles_child(c, period) ==
    CASE period = 1 -> <<Named("cardano", 1), Named("cardano", 2), Named("cardano", 3)>>
      [] period = 2 ->
            IF c = COne THEN <<Named("not_finite", 1), Named("not_finite", 2)>>
            ELSE LET c2 == CMul(c, c)
                     x0 == CScale(R(3), c2)
                     denom == CScale(Rat(1, 2), CInv(CSub(c, COne)))
                     inner == CAdd(CSub(CScale(R(8), c2), CScale(R(6), c)), CReal(R(4)))
                     d == CAdd(CSub(CMul(x0, x0), CMul(c, inner)), COne)
                     a == CMul(denom, CSub(x0, COne))
                 IN  <<Closed(a, denom, d), Closed(a, CNeg(denom), d)>>
      [] period = 3 -> solve_polynomial(7)
      [] period = 4 ->
            solve_polynomial(9) \o <<Exact(COne), Exact(c), Exact(CZero)>>
      [] OTHER -> <<>>

Query(op, c, preperiod, period, res) ==
    [op |-> op, c |-> c, preperiod |-> preperiod, period |-> period, res |-> res]

\* One query is made in a behaviour: the functions are pure, no query depends on
\* an earlier one.
CyclesInit ==
    /\ cq = Query("none", CZero, 0, 0, <<>>)
    /\ GridModelIdle
    /\ ColoringIdle /\ BailoutIdle /\ InteriorIdle /\ JuliaIdle /\ RayIdle /\ ProfilesIdle

CyclesRest == <<gridModelVars, coloringVars, bailoutVars, interiorVars, juliaVars, rayVars,
    profilesVars>>

Cycles(period) ==
    /\ cq.op = "none"
    /\ cq' = Query("Mandelbrot::cycles", CZero, 0, period, Mandelbrot_cycles(period))
    /\ UNCHANGED CyclesRest

CyclesChild(c, period) ==
    /\ cq.op = "none"
    /\ cq' = Query("Mandelbrot::cycles_child", c, 0, period,
                   Mandelbrot_cycles_child(c, period))
    /\ UNCHANGED CyclesRest

PrecyclesChild(c, preperiod, period) ==
    /\ cq.op = "none"
    /\ cq' = Query("Mandelbrot::precycles_child", c, preperiod, period,
                   Mandelbrot_precycles_child(c, preperiod, period))
    /\ UNCHANGED CyclesRest

QuadRatCyclesChild(c, period) ==
    /\ cq.op = "none"
    /\ cq' = Query("QuadRatPer4::cycles_child", c, 0, period,
                   QuadRatPer4_cycles_child(c, period))
    /\ UNCHANGED CyclesRest

CyclesNext ==
    \/ \E period \in Periods : Cycles(period)
    \/ \E c \in CycleParams, period \in Periods : CyclesChild(c, period)
    \/ \E c \in CycleParams, preperiod \in Preperiods, period \in Periods :
            PrecyclesChild(c, preperiod, period)
    \/ \E c \in CycleParams, period \in Periods : QuadRatCyclesChild(c, period)

SpecCycles == CyclesInit /\ [][CyclesNext]_vars

SupportedSchemas == {<<2, 1>>, <<2, 2>>, <<2, 3>>, <<2, 4>>, <<3, 3>>, <<3, 4>>}

Unsupported ==
    \/ cq.op = "Mandelbrot::cycles" /\ cq.period \notin 1..5
    \/ cq.op = "Mandelbrot::cycles_child" /\ cq.period \notin 1..6
    \/ cq.op = "Mandelbrot::precycles_child"
            /\ <<cq.preperiod, cq.period>> \notin SupportedSchemas
    \/ cq.op = "QuadRatPer4::cycles_child" /\ cq.period \notin 1..4

\* C12: a cycle or precycle query for an unsupported period (or schema) returns the
\* empty list, for every parameter c: Mandelbrot::cycles outside 1..=5, cycles_child
\* outside 1..=6, precycles_child outside the six schemas, QuadRatPer4::cycles_child
\* outside 1..=4, period 0 included.
C12_UnsupportedIsEmpty == Unsupported => cq.res = <<>>

\* C12 witness: QuadRatPer4::cycles_child was asked for period 0 at a parameter
\* other than 0.
C12_Witness ==
    /\ cq.op = "QuadRatPer4::cycles_child" /\ cq.period = 0
    /\ cq.c = Cplx(Rat(1, 2), R(-1)) /\ cq.res = <<>>

\* The sum and the product of two values a + b * sqrt(d) over the same d: the
\* rational part and the coefficient of sqrt(d).
QSum(v, w) == [rat |-> CAdd(v.a, w.a), irr |-> CAdd(v.b, w.b)]
QProd(v, w) ==
    [rat |-> CAdd(CMul(v.a, w.a), CMul(CMul(v.b, w.b), v.d)),
     irr |-> CAdd(CMul(v.a, w.b), CMul(v.b, w.a))]

\* z1, z2 are the two roots of z^2 + p z + q: z1 + z2 = -p and z1 * z2 = q.
RootsOf(res, p, q) ==
    /\ Len(res) = 2
    /\ res[1].kind = "closed" /\ res[2].kind = "closed" /\ res[1].d = res[2].d
    /\ QSum(res[1], res[2]) = [rat |-> CNeg(p), irr |-> CZero]
    /\ QProd(res[1], res[2]) = [rat |-> q, irr |-> CZero]

\* C19: for every c, Mandelbrot::cycles_child(c, 1) returns exactly the two roots of
\* z^2 - z + c = 0 (sum 1, product c), and cycles_child(c, 2) exactly the two roots
\* of z^2 + z + c + 1 = 0.
C19_FixedPointsAndTwoCycle ==
    cq.op = "Mandelbrot::cycles_child" =>
        /\ cq.period = 1 => RootsOf(cq.res, CNeg(COne), cq.c)
        /\ cq.period = 2 => RootsOf(cq.res, COne, CAdd(cq.c, COne))

\* C19 witness: the 2-cycle was asked for at a parameter that is not real.
C19_Witness ==
    /\ cq.op = "Mandelbrot::cycles_child" /\ cq.period = 2
    /\ cq.c = Cplx(Rat(1, 2), R(1)) /\ Len(cq.res) = 2

----------------------------------------------------------------------------
(* Interior coloring: the formula PreperiodSmooth selects                    *)
(* (src/coloring/coloring_algorithm.rs)                                      *)

\* Largest coefficient of a multiplier norm a + b * 1e-5 + c * 1e-10.
MaxTolUnits == 2

\* A norm near the thresholds is kept exactly as <<a, b, c>>, standing for
\* a + b * 1e-5 + c * 1e-10 with integers a, b, c of magnitude far below 1e5: the
\* order of such numbers is the lexicographic order of the triples.
Tol(a, b, c) == <<a, b, c>>
TolSub(x, y) == <<x[1] - y[1], x[2] - y[2], x[3] - y[3]>>
TolLt(x, y) ==
    \/ x[1] < y[1]
    \/ x[1] = y[1] /\ x[2] < y[2]
    \/ x[1] = y[1] /\ x[2] = y[2] /\ x[3] < y[3]
TolLe(x, y) == x = y \/ TolLt(x, y)
TolAbs(x) == IF TolLt(x, Tol(0, 0, 0)) THEN <<-x[1], -x[2], -x[3]>> ELSE x

\* An f64 that is a number or NaN; every comparison with NaN is false.
Num(x) == [nan |-> FALSE, v |-> x]
NaN == [nan |-> TRUE, v |-> Tol(0, 0, 0)]
FLe(x, y) == ~x.nan /\ ~y.nan /\ TolLe(x.v, y.v)
FGt(x, y) == ~x.nan /\ ~y.nan /\ TolLt(y.v, x.v)
\* 1. - x
OneMinus(x) == IF x.nan THEN NaN ELSE Num(TolSub(Tol(1, 0, 0), x.v))

SuperattractingTol == Num(Tol(0, 0, 1))    \* 1e-10
ParabolicTol == Num(Tol(0, 1, 0))          \* 1e-5

\* The norms drawn: every a + b * 1e-5 + c * 1e-10 >= 0 within the bound, and NaN.
TolUnits == (-MaxTolUnits)..MaxTolUnits
MultNorms ==
    {Num(x) : x \in {y \in (0..MaxTolUnits) \X TolUnits \X TolUnits :
                        TolLe(Tol(0, 0, 0), y)}}
    \cup {NaN}

ColoringAlgorithms ==
    {"PeriodMultiplier", "Period", "Solid", "PreperiodSmooth", "Preperiod", "Multiplier"}

\* multiplier_coloring_rate: which rate the generic formula uses.
multiplier_coloring_rate(scaling_rate) ==
    IF FGt(scaling_rate, SuperattractingTol) THEN "-log2(norm)/40" ELSE "10"

\* The if / else if / else of the PreperiodSmooth arm.
smooth_formula(mult_norm) ==
    IF FLe(mult_norm, SuperattractingTol)
    THEN [formula |-> "superattracting", rate |-> "0.1"]
    ELSE IF FLe(OneMinus(mult_norm), ParabolicTol)
    THEN [formula |-> "parabolic", rate |-> "0.1"]
    ELSE [formula |-> "generic", rate |-> multiplier_coloring_rate(mult_norm)]

\* ColoringAlgorithm::color_periodic: the luminosity formula of each arm.
color_periodic(self, mult_norm) ==
    CASE self = "Solid" -> [formula |-> "none", rate |-> "none"]
      [] self = "Period" -> [formula |-> "zero", rate |-> "none"]
      [] self = "PeriodMultiplier" -> [formula |-> "one", rate |-> "none"]
      [] self = "Preperiod" -> [formula |-> "preperiod", rate |-> "0.02"]
      [] self = "PreperiodSmooth" -> smooth_formula(mult_norm)
      [] OTHER -> [formula |-> "norm", rate |-> "none"]

\* ColoringAlgorithm::encode_periodic: the luminosity formula of each arm.
encode_periodic(self, mult_norm) ==
    CASE self = "Solid" -> [formula |-> "none", rate |-> "none"]
      [] self = "Period" -> [formula |-> "one", rate |-> "none"]
      [] self = "PeriodMultiplier" -> [formula |-> "norm", rate |-> "none"]
      [] self = "Preperiod" -> [formula |-> "preperiod", rate |-> "0.02"]
      [] self = "PreperiodSmooth" -> smooth_formula(mult_norm)
      [] OTHER -> [formula |-> "norm", rate |-> "none"]

InteriorCall(op, self, mult_norm, res) ==
    [op |-> op, self |-> self, mult_norm |-> mult_norm, res |-> res]

\* One call is made in a behaviour: both functions are pure.
InteriorInit ==
    /\ ia = InteriorCall("none", "Solid", NaN, [formula |-> "none", rate |-> "none"])
    /\ GridModelIdle
    /\ ColoringIdle /\ CyclesIdle /\ BailoutIdle /\ JuliaIdle /\ RayIdle /\ ProfilesIdle

InteriorRest == <<gridModelVars, coloringVars, cyclesVars, bailoutVars, juliaVars, rayVars,
    profilesVars>>

ColorPeriodic(self, mult_norm) ==
    /\ ia.op = "none"
    /\ ia' = InteriorCall("color_periodic", self, mult_norm, color_periodic(self, mult_norm))
    /\ UNCHANGED InteriorRest

EncodePeriodic(self, mult_norm) ==
    /\ ia.op = "none"
    /\ ia' = InteriorCall("encode_periodic", self, mult_norm,
                          encode_periodic(self, mult_norm))
    /\ UNCHANGED InteriorRest

InteriorNext ==
    \/ \E self \in ColoringAlgorithms, m \in MultNorms : ColorPeriodic(self, m)
    \/ \E self \in ColoringAlgorithms, m \in MultNorms : EncodePeriodic(self, m)

SpecInterior == InteriorInit /\ [][InteriorNext]_vars

\* The regimes as the claim states them, on the norm m.
IsSuperattracting(m) == ~m.nan /\ TolLe(m.v, Tol(0, 0, 1))
IsParabolic(m) ==
    /\ ~m.nan /\ TolLt(Tol(0, 0, 1), m.v)
    /\ TolLe(TolAbs(TolSub(Tol(1, 0, 0), m.v)), Tol(0, 1, 0))

\* C20: PreperiodSmooth, in color_periodic and in encode_periodic, selects the
\* superattracting formula iff m <= 1e-10, the parabolic formula iff |1 - m| <= 1e-5
\* (and m > 1e-10), and the generic formula for every other m, every m > 1 + 1e-5
\* included.
C20_FormulaByMultiplierNorm ==
    ia.op # "none" /\ ia.self = "PreperiodSmooth" =>
        /\ ia.res.formula = "superattracting" <=> IsSuperattracting(ia.mult_norm)
        /\ ia.res.formula = "parabolic" <=> IsParabolic(ia.mult_norm)
        /\ ia.res.formula = "generic"
              <=> ~IsSuperattracting(ia.mult_norm) /\ ~IsParabolic(ia.mult_norm)

\* The luminosity a formula gives: the three formulas of PreperiodSmooth and the
\* one of Preperiod end in .tanh(); Period and PeriodMultiplier pass the constants
\* 0. and 1. (color_periodic) or 1. and multiplier.norm() (encode_periodic);
\* Multiplier passes multiplier.norm(); Solid returns before any luminosity, and is
\* given the 0. of its Hsv::new(0., 0., 0.).
luminosity(res, mult_norm) ==
    CASE res.formula \in {"superattracting", "parabolic", "generic", "preperiod"} ->
             [tanh |-> TRUE, v |-> NaN]
      [] res.formula = "one" -> [tanh |-> FALSE, v |-> Num(Tol(1, 0, 0))]
      [] res.formula = "norm" -> [tanh |-> FALSE, v |-> mult_norm]
      [] OTHER -> [tanh |-> FALSE, v |-> Num(Tol(0, 0, 0))]

\* A luminosity in [-1, 1]: a value of tanh, or a number that lies there.
InUnitRange(lum) ==
    \/ lum.tanh
    \/ FLe(Num(Tol(-1, 0, 0)), lum.v) /\ FLe(lum.v, Num(Tol(1, 0, 0)))

\* C21: for every interior coloring algorithm and every input, the luminosity
\* color_periodic and encode_periodic use lies in [-1, 1], whatever the multiplier
\* norm is.
C21_LuminosityBounded ==
    ia.op # "none" => InUnitRange(luminosity(ia.res, ia.mult_norm))

----------------------------------------------------------------------------
(* JuliaSet: a family with its parameter fixed (core/src/dynamics/julia.rs), *)
(* built from a Mandelbrot parent (profiles/src/polynomials/mandelbrot.rs)   *)

\* Points z, selections and parameters have integer parts of magnitude at most
\* MaxJuliaPoint.
MaxJuliaPoint == 1

JuliaPoints ==
    {Cplx(R(x), R(y)) : x \in (-MaxJuliaPoint)..MaxJuliaPoint,
                        y \in (-MaxJuliaPoint)..MaxJuliaPoint}

\* The parameters given to set_param and set_meta_param, and the points selected
\* in the parent's plane when the JuliaSet is built.
JuliaParams == {Cplx(R(x), R(y)) : x \in 0..MaxJuliaPoint, y \in 0..MaxJuliaPoint}
Selections == {CZero, COne}

\* The only value of the type NoParam.
NoParam == "NoParam"

\* A Mandelbrot instance: the fields point_grid and max_iter of the struct. min_iter
\* and default_selection stand for what the contract's methods of these names, which
\* Mandelbrot does not override, return for the instance.
MaxIters == {1024}
MinIters == {0, 16}

\* Mandelbrot::DEFAULT_BOUNDS
Mandelbrot_DEFAULT_BOUNDS ==
    [min_x |-> RDiv(R(-21), R(10)), max_x |-> RDiv(R(11), R(20)),
     min_y |-> RDiv(R(-5), R(4)), max_y |-> RDiv(R(5), R(4))]

\* The grids of the parent have at most MaxParentRes points a side.
MaxParentRes == 3
ParentGrids ==
    {PointGrid_new(rx, ry, Mandelbrot_DEFAULT_BOUNDS) :
        rx \in {MaxParentRes}, ry \in 1..MaxParentRes}
Mandelbrot(point_grid, max_iter, min_iter, default_selection) ==
    [family |-> "Mandelbrot", point_grid |-> point_grid, max_iter |-> max_iter,
     min_iter |-> min_iter, default_selection |-> default_selection]

\* The accessors of the contract: point_grid, max_iter, min_iter, default_selection
\* and get_meta_params (Mandelbrot has no meta-parameters).
Mandelbrot_point_grid(self) == self.point_grid
Mandelbrot_max_iter(self) == self.max_iter
Mandelbrot_min_iter(self) == self.min_iter
Mandelbrot_default_selection(self) == self.default_selection
Mandelbrot_get_meta_params(self) == NoParam

\* Bounds::centered_square
centered_square(radius) ==
    [min_x |-> RNeg(radius), max_x |-> radius, min_y |-> RNeg(radius), max_y |-> radius]

\* Mandelbrot::default_julia_bounds: Bounds::centered_square(2.2)
Mandelbrot_default_julia_bounds(self, point_, param_) == centered_square(RDiv(R(11), R(5)))

\* f and df_dz of mandelbrot.rs
f(z, c) == CAdd(CMul(z, z), c)
df_dz(z, c) == CAdd(z, z)

\* Mandelbrot::param_map, map, dynamical_derivative, parameter_derivative
Mandelbrot_param_map(self, point) == point
Mandelbrot_map(self, z, c) == f(z, c)
Mandelbrot_dynamical_derivative(self, z, c) == df_dz(z, c)
Mandelbrot_parameter_derivative(self, z, c) == COne

\* The contract's map_and_multiplier and gradient, which Mandelbrot does not override:
\* the step with its derivative in z, and with its derivatives in z and in the parameter.
Mandelbrot_map_and_multiplier(self, z, c) ==
    <<Mandelbrot_map(self, z, c), Mandelbrot_dynamical_derivative(self, z, c)>>
Mandelbrot_gradient(self, z, c) ==
    <<Mandelbrot_map(self, z, c), Mandelbrot_dynamical_derivative(self, z, c),
      Mandelbrot_parameter_derivative(self, z, c)>>

ParamStack(meta_params, local_param) ==
    [meta_params |-> meta_params, local_param |-> local_param]

\* JuliaSet::new with the iteration counts taken from its argument max_iter_
\* instead of the parent.
JuliaSet_new_given_max_iter(parent_, parent_selection, max_iter_) ==
    LET local_param == Mandelbrot_param_map(parent_, parent_selection)
    IN  [point_grid |-> new_with_same_height(
                            Mandelbrot_point_grid(parent_),
                            Mandelbrot_default_julia_bounds(parent_, parent_selection,
                                                            local_param)),
         parent |-> parent_,
         max_iter |-> max_iter_,
         min_iter |-> max_iter_,
         meta_params |-> Mandelbrot_get_meta_params(parent_),
         local_param |-> local_param,
         parent_selection |-> parent_selection]

\* JuliaSet::new: the argument max_iter_ is not read.
JuliaSet_new(parent_, parent_selection, max_iter_) ==
    LET local_param == Mandelbrot_param_map(parent_, parent_selection)
    IN  [point_grid |-> new_with_same_height(
                            Mandelbrot_point_grid(parent_),
                            Mandelbrot_default_julia_bounds(parent_, parent_selection,
                                                            local_param)),
         parent |-> parent_,
         max_iter |-> Mandelbrot_max_iter(parent_),
         min_iter |-> Mandelbrot_min_iter(parent_),
         meta_params |-> Mandelbrot_get_meta_params(parent_),
         local_param |-> local_param,
         parent_selection |-> parent_selection]

\* impl From<T> for JuliaSet<T>: built at the parent's default selection.
JuliaSet_from(parent_) ==
    LET parent_selection == Mandelbrot_default_selection(parent_)
        local_param == Mandelbrot_param_map(parent_, parent_selection)
    IN  [point_grid |-> new_with_same_height(
                            Mandelbrot_point_grid(parent_),
                            Mandelbrot_default_julia_bounds(parent_, parent_selection,
                                                            local_param)),
         parent |-> parent_,
         max_iter |-> Mandelbrot_max_iter(parent_),
         min_iter |-> Mandelbrot_min_iter(parent_),
         meta_params |-> Mandelbrot_get_meta_params(parent_),
         local_param |-> local_param,
         parent_selection |-> parent_selection]

\* The parent evaluated at the point selected instead of the parameter held.
JuliaSet_map_selection(self, z, c_) == Mandelbrot_map(self.parent, z, self.parent_selection)

\* JuliaSet::map, dynamical_derivative, map_and_multiplier, gradient
JuliaSet_map(self, z, c_) == Mandelbrot_map(self.parent, z, self.local_param)
JuliaSet_dynamical_derivative(self, z, c_) ==
    Mandelbrot_dynamical_derivative(self.parent, z, self.local_param)
JuliaSet_map_and_multiplier(self, z, c_) ==
    Mandelbrot_map_and_multiplier(self.parent, z, self.local_param)
JuliaSet_gradient(self, z, c_) == Mandelbrot_gradient(self.parent, z, self.local_param)

\* JuliaSet::set_meta_param, set_param, get_meta_params, get_param
JuliaSet_set_meta_param(self, stack) ==
    [self EXCEPT !.meta_params = stack.meta_params, !.local_param = stack.local_param]
JuliaSet_set_param(self, local_param) == [self EXCEPT !.local_param = local_param]
JuliaSet_get_meta_params(self) == ParamStack(self.meta_params, self.local_param)
JuliaSet_get_param(self) == self.local_param

JCall(op, z, p, res) == [op |-> op, z |-> z, p |-> p, res |-> res]

\* The parents of SpecJulia: one grid, one min_iter, one default selection.
JuliaParents ==
    {Mandelbrot(PointGrid_new(MaxParentRes, MaxParentRes, Mandelbrot_DEFAULT_BOUNDS),
                m, 0, CZero) : m \in MaxIters}

JuliaInit ==
    /\ parent \in JuliaParents
    /\ \E selection \in Selections :
           julia = JuliaSet_new(parent, selection, Mandelbrot_max_iter(parent))
    /\ jcall = JCall("new", CZero, CZero, <<>>)
    /\ jnew = NoCall
    /\ GridModelIdle
    /\ ColoringIdle /\ CyclesIdle /\ BailoutIdle /\ InteriorIdle /\ RayIdle /\ ProfilesIdle

JuliaRest == <<gridModelVars, coloringVars, cyclesVars, bailoutVars, interiorVars, rayVars,
    profilesVars>>

JuliaMap(z, c_) ==
    /\ jcall' = JCall("map", z, CZero, <<JuliaSet_map(julia, z, c_)>>)
    /\ UNCHANGED <<parent, julia, jnew, JuliaRest>>

JuliaDynamicalDerivative(z, c_) ==
    /\ jcall' = JCall("dynamical_derivative", z, CZero,
                      <<JuliaSet_dynamical_derivative(julia, z, c_)>>)
    /\ UNCHANGED <<parent, julia, jnew, JuliaRest>>

JuliaMapAndMultiplier(z, c_) ==
    /\ jcall' = JCall("map_and_multiplier", z, CZero,
                      JuliaSet_map_and_multiplier(julia, z, c_))
    /\ UNCHANGED <<parent, julia, jnew, JuliaRest>>

JuliaGradient(z, c_) ==
    /\ jcall' = JCall("gradient", z, CZero, JuliaSet_gradient(julia, z, c_))
    /\ UNCHANGED <<parent, julia, jnew, JuliaRest>>

JuliaSetParam(local_param) ==
    /\ julia' = JuliaSet_set_param(julia, local_param)
    /\ jcall' = JCall("set_param", CZero, local_param, <<>>)
    /\ UNCHANGED <<parent, jnew, JuliaRest>>

JuliaSetMetaParam(stack) ==
    /\ julia' = JuliaSet_set_meta_param(julia, stack)
    /\ jcall' = JCall("set_meta_param", CZero, stack.local_param, <<>>)
    /\ UNCHANGED <<parent, jnew, JuliaRest>>

JuliaGetParam ==
    /\ jcall' = JCall("get_param", CZero, CZero, <<JuliaSet_get_param(julia)>>)
    /\ UNCHANGED <<parent, julia, jnew, JuliaRest>>

JuliaNext ==
    \/ \E z \in JuliaPoints, c_ \in {NoParam} : JuliaMap(z, c_)
    \/ \E z \in JuliaPoints, c_ \in {NoParam} : JuliaDynamicalDerivative(z, c_)
    \/ \E z \in JuliaPoints, c_ \in {NoParam} : JuliaMapAndMultiplier(z, c_)
    \/ \E z \in JuliaPoints, c_ \in {NoParam} : JuliaGradient(z, c_)
    \/ \E p \in JuliaParams : JuliaSetParam(p)
    \/ \E p \in JuliaParams : JuliaSetMetaParam(ParamStack(NoParam, p))
    \/ JuliaGetParam

SpecJulia == JuliaInit /\ [][JuliaNext]_vars

----------------------------------------------------------------------------
(* SpecJuliaNew: JuliaSets built from a parent by JuliaSet::new and by From  *)

\* A JuliaSet built, the way it was built and the arguments it was built with.
JNew(op, parent_selection, max_iter_, res) ==
    [op |-> op, parent_selection |-> parent_selection, max_iter |-> max_iter_, res |-> res]

\* The values passed as the argument max_iter of JuliaSet::new.
MaxIterArgs == {1, 1024}

NewParents ==
    {Mandelbrot(g, m, n, s) :
        g \in ParentGrids, m \in MaxIters, n \in MinIters, s \in Selections}

JuliaNewInit ==
    /\ parent \in NewParents
    /\ julia = NoCall /\ jcall = NoCall /\ jnew = NoCall
    /\ GridModelIdle
    /\ ColoringIdle /\ CyclesIdle /\ BailoutIdle /\ InteriorIdle /\ RayIdle /\ ProfilesIdle

\* JuliaSet::new on a clone of the parent.
JuliaNew(parent_selection, max_iter_) ==
    /\ jnew' = JNew("new", parent_selection, max_iter_,
                    JuliaSet_new(parent, parent_selection, max_iter_))
    /\ UNCHANGED <<parent, julia, jcall, JuliaRest>>

\* JuliaSet::from on a clone of the parent.
JuliaFrom ==
    /\ jnew' = JNew("from", Mandelbrot_default_selection(parent),
                    Mandelbrot_max_iter(parent), JuliaSet_from(parent))
    /\ UNCHANGED <<parent, julia, jcall, JuliaRest>>

JuliaNewNext ==
    \/ \E s \in JuliaPoints, m \in MaxIterArgs : JuliaNew(s, m)
    \/ JuliaFrom

SpecJuliaNew == JuliaNewInit /\ [][JuliaNewNext]_vars

\* C30: a JuliaSet built by JuliaSet::new(parent, selection, max_iter) or by
\* From<parent> has max_iter = parent.max_iter() and min_iter = parent.min_iter()
\* whatever the argument max_iter is, local_param = parent.param_map(selection), and
\* a grid with the res_y of the parent's grid; the parent is not modified: the
\* JuliaSet holds a parent equal to the one passed in.
C30_BudgetFromParent ==
    [][/\ jnew'.op \in {"new", "from"} =>
            /\ jnew'.res.max_iter = parent.max_iter
            /\ jnew'.res.min_iter = parent.min_iter
            /\ jnew'.res.local_param = jnew'.parent_selection
            /\ jnew'.res.parent_selection = jnew'.parent_selection
            /\ jnew'.res.point_grid.res_y = parent.point_grid.res_y
            /\ jnew'.res.parent = parent
            /\ parent' = parent
       /\ jnew'.op = "from" => jnew'.parent_selection = parent.default_selection]_vars

\* C30 witness: JuliaSet::new was given a max_iter that is not the parent's, at a
\* selection that is not real, for a parent whose min_iter is not 0 and whose grid
\* is less high than wide.
C30_Witness ==
    /\ jnew.op = "new"
    /\ jnew.max_iter # parent.max_iter
    /\ jnew.parent_selection = Cplx(R(1), R(1))
    /\ parent.min_iter # 0
    /\ parent.point_grid.res_y < parent.point_grid.res_x
    /\ jnew.res.max_iter = parent.max_iter
    /\ jnew.res.point_grid.res_y = parent.point_grid.res_y

\* The parent's step z^2 + c and its derivatives 2z and 1, written out.
StepAt(z, c) == Cplx(RAdd(RSub(RMul(z.re, z.re), RMul(z.im, z.im)), c.re),
                     RAdd(RMul(R(2), RMul(z.re, z.im)), c.im))
SlopeAt(z) == Cplx(RMul(R(2), z.re), RMul(R(2), z.im))
ParentAt(op, z, c) ==
    CASE op = "map" -> <<StepAt(z, c)>>
      [] op = "dynamical_derivative" -> <<SlopeAt(z)>>
      [] op = "map_and_multiplier" -> <<StepAt(z, c), SlopeAt(z)>>
      [] OTHER -> <<StepAt(z, c), SlopeAt(z), COne>>

Evaluations == {"map", "dynamical_derivative", "map_and_multiplier", "gradient"}
Setters == {"set_param", "set_meta_param"}

\* C16: map, dynamical_derivative, map_and_multiplier and gradient of a JuliaSet
\* return the parent's result at (z, local_param) whatever argument is passed and
\* change nothing; local_param changes only in set_param and set_meta_param, which
\* set it to the value given, and no setter changes the parent instance, neither
\* the one the JuliaSet was built from nor the clone it holds.
C16_DelegatesAtFixedParameter ==
    [][/\ jcall'.op \in Evaluations =>
            /\ jcall'.res = ParentAt(jcall'.op, jcall'.z, julia.local_param)
            /\ julia' = julia /\ parent' = parent
       /\ julia'.local_param # julia.local_param => jcall'.op \in Setters
       /\ jcall'.op \in Setters =>
            /\ julia'.local_param = jcall'.p
            /\ julia'.parent = julia.parent /\ parent' = parent]_vars

\* C16 witness: after set_param has moved the parameter away from the point
\* selected, map was evaluated at a point that is not real.
C16_Witness ==
    /\ jcall.op = "map" /\ jcall.z = Cplx(R(1), R(1))
    /\ julia.local_param = Cplx(R(0), R(1))
    /\ julia.parent_selection = Cplx(R(1), R(0))
    /\ jcall.res = <<Cplx(R(0), R(3))>>

----------------------------------------------------------------------------
(* Mandelbrot::early_bailout (profiles/src/polynomials/mandelbrot.rs)        *)

\* Multipliers are drawn with real and imaginary part k / MaxDen, |k| <= MaxDen.
MaxDen == 4

\* Largest preperiod early_bailout computes at a parameter drawn.
MaxLogSteps == 6

\* The largest integer whose square is at most n, for 0 <= n.
RECURSIVE ISqrtBetween(_, _, _)
ISqrtBetween(n, lo, hi) ==
    IF lo >= hi THEN lo
    ELSE LET mid == (lo + hi + 1) \div 2
         IN  IF mid * mid <= n THEN ISqrtBetween(n, mid, hi)
                               ELSE ISqrtBetween(n, lo, mid - 1)
ISqrt(n) == ISqrtBetween(n, 0, IF n < 46340 THEN n ELSE 46340)
IsSquare(n) == n >= 0 /\ ISqrt(n) * ISqrt(n) = n

\* Real::sqrt of a rational that is the square of a rational.
RSqrtExact(q) == IsSquare(q[1]) /\ IsSquare(q[2])
RSqrt(q) == Rat(ISqrt(q[1]), ISqrt(q[2]))

\* Cplx::norm
norm(z) == RSqrt(norm_sqr(z))

\* Cplx::sqrt, the principal square root: for z = x + iy with modulus r it is
\* sqrt((r + x) / 2) + i * sgn(y) * sqrt((r - x) / 2), with sgn(0) = +1.
CSqrtParts(z) ==
    LET r == norm(z)
    IN  <<RDiv(RAdd(r, z.re), R(2)), RDiv(RSub(r, z.re), R(2))>>
CSqrtExact(z) ==
    /\ RSqrtExact(norm_sqr(z))
    /\ RSqrtExact(CSqrtParts(z)[1]) /\ RSqrtExact(CSqrtParts(z)[2])
CSqrt(z) ==
    LET p == CSqrtParts(z)
        im == RSqrt(p[2])
    IN  Cplx(RSqrt(p[1]), IF RLt(z.im, R(0)) THEN RNeg(im) ELSE im)

\* trunc(ln(x) / ln(b)) for 0 < x <= 1 and 0 < b < 1: the n with b^(n+1) < x <= b^n.
RECURSIVE TruncLog(_, _)
TruncLog(x, b) == IF RLt(b, x) THEN 0 ELSE 1 + TruncLog(RDiv(x, b), b)

\* `(scale * x.log(b)) as Period` for x >= 0, 0 <= b < 1 and scale 1 or 2, where
\* x.log(b) = ln(x) / ln(b) and the cast truncates, saturates and sends NaN to 0:
\*   b = 0: ln(b) = -inf, the quotient is NaN (x = 0) or a zero, the cast gives 0;
\*   x = 0 < b: the quotient is +inf, the cast saturates;
\*   x >= 1: the quotient is <= 0, the cast gives 0;
\*   else trunc(scale * ln(x) / ln(b)) = trunc(ln(x^scale) / ln(b)).
log_as_Period(x, b, scale) ==
    IF b[1] = 0 THEN 0
    ELSE IF x[1] = 0 THEN "Period::MAX"
    ELSE IF RLe(R(1), x) THEN 0
    ELSE TruncLog(IF scale = 2 THEN RMul(x, x) ELSE x, b)

NotYetEscaped ==
    [state |-> "NotYetEscaped", value |-> CZero, period |-> 0, preperiod |-> 0,
     multiplier |-> CZero]
Periodic(value, period, preperiod, multiplier) ==
    [state |-> "Periodic", value |-> value, period |-> period, preperiod |-> preperiod,
     multiplier |-> multiplier]

\* The tests of early_bailout: a < y2 (main cardioid) and |mu2|^2 < 1 (basilica bulb).
InCardioid(c) ==
    LET four_c == CScale(R(4), c)
        y2 == RMul(four_c.im, four_c.im)
        temp == RSub(four_c.re, R(1))
        mu_norm2 == mul_add(temp, temp, y2)
        a == RMul(mu_norm2, mul_add(mu_norm2, Rat(1, 4), temp))
    IN  RLt(a, y2)
InBasilica(c) == RLt(norm_sqr(CAdd(CScale(R(4), c), CReal(R(4)))), R(1))

\* The square root returned as the multiplier, in place of 1 - root.
early_bailout_root(c) ==
    LET four_c == CScale(R(4), c)
    IN  IF InCardioid(c)
        THEN LET multiplier == CSub(COne, CSqrt(CSub(COne, four_c)))
                 decay_rate == norm(multiplier)
                 fixed_point == CScale(Rat(1, 2), multiplier)
                 init_dist == norm_sqr(CSub(c, fixed_point))
             IN  Periodic(fixed_point, 1, log_as_Period(init_dist, decay_rate, 1),
                          CSqrt(CSub(COne, four_c)))
        ELSE NotYetEscaped

\* The multiplier of the bulb taken to be four_c.
early_bailout_four_c(c) ==
    LET four_c == CScale(R(4), c)
        mu2 == CAdd(four_c, CReal(R(4)))
    IN  IF ~InCardioid(c) /\ InBasilica(c)
        THEN LET decay_rate == norm(mu2)
                 fixed_point == CSub(CReal(Rat(-1, 2)),
                                     CScale(Rat(1, 2), CSqrt(CSub(CNeg(four_c), CReal(R(3))))))
                 init_dist == norm_sqr(CSub(c, fixed_point))
             IN  Periodic(fixed_point, 2, log_as_Period(init_dist, decay_rate, 2), four_c)
        ELSE NotYetEscaped

\* Mandelbrot::early_bailout
early_bailout(c) ==
    LET four_c == CScale(R(4), c)
        mu2 == CAdd(four_c, CReal(R(4)))
    IN  IF InCardioid(c)
        THEN LET multiplier == CSub(COne, CSqrt(CSub(COne, four_c)))
                 decay_rate == norm(multiplier)
                 fixed_point == CScale(Rat(1, 2), multiplier)
                 init_dist == norm_sqr(CSub(c, fixed_point))
             IN  Periodic(fixed_point, 1, log_as_Period(init_dist, decay_rate, 1), multiplier)
        ELSE IF InBasilica(c)
        THEN LET decay_rate == norm(mu2)
                 fixed_point == CSub(CReal(Rat(-1, 2)),
                                     CScale(Rat(1, 2), CSqrt(CSub(CNeg(four_c), CReal(R(3))))))
                 init_dist == norm_sqr(CSub(c, fixed_point))
             IN  Periodic(fixed_point, 2, log_as_Period(init_dist, decay_rate, 2), mu2)
        ELSE NotYetEscaped

\* The parameters drawn: those with multiplier m of the fixed point (c = m/2 - m^2/4)
\* or multiplier mu2 of the 2-cycle (c = mu2/4 - 1) on the grid, at which every square
\* root early_bailout takes is the root of a rational square.
DenUnits == {Rat(k, MaxDen) : k \in (-MaxDen)..MaxDen}
Multipliers == {Cplx(x, y) : x \in DenUnits, y \in DenUnits}

\* TruncLog(x, b) if it is at most k, and k + 1 otherwise.
RECURSIVE TruncLogUpTo(_, _, _)
TruncLogUpTo(x, b, k) ==
    IF RLt(b, x) THEN 0
    ELSE IF k = 0 THEN 1
    ELSE 1 + TruncLogUpTo(RDiv(x, b), b, k - 1)
LogInRange(x, b, scale) ==
    \/ b[1] = 0 \/ x[1] = 0 \/ RLe(R(1), x)
    \/ TruncLogUpTo(IF scale = 2 THEN RMul(x, x) ELSE x, b, MaxLogSteps) <= MaxLogSteps

ExactAt(c) ==
    LET four_c == CScale(R(4), c)
        mu2 == CAdd(four_c, CReal(R(4)))
    IN  IF InCardioid(c)
        THEN /\ CSqrtExact(CSub(COne, four_c))
             /\ LET multiplier == CSub(COne, CSqrt(CSub(COne, four_c)))
                    fixed_point == CScale(Rat(1, 2), multiplier)
                IN  /\ RSqrtExact(norm_sqr(multiplier))
                    /\ LogInRange(norm_sqr(CSub(c, fixed_point)), norm(multiplier), 1)
        ELSE IF InBasilica(c)
        THEN /\ RSqrtExact(norm_sqr(mu2))
             /\ CSqrtExact(CSub(CNeg(four_c), CReal(R(3))))
             /\ LET fixed_point ==
                        CSub(CReal(Rat(-1, 2)),
                             CScale(Rat(1, 2), CSqrt(CSub(CNeg(four_c), CReal(R(3))))))
                IN  LogInRange(norm_sqr(CSub(c, fixed_point)), norm(mu2), 2)
        ELSE TRUE

\* The parameters drawn: those with multiplier m of the fixed point (c = m/2 - m^2/4)
\* or multiplier mu2 of the 2-cycle (c = mu2/4 - 1) on the grid, at which every square
\* root early_bailout takes is the root of a rational square and the preperiod it
\* computes is at most MaxLogSteps.
BailoutParams ==
    {c \in {CSub(CScale(Rat(1, 2), m), CScale(Rat(1, 4), CMul(m, m))) : m \in Multipliers}
           \cup {CSub(CScale(Rat(1, 4), m), COne) : m \in Multipliers} : ExactAt(c)}

Bailout(op, c, res) == [op |-> op, c |-> c, res |-> res]

BailoutInit ==
    /\ \E c \in BailoutParams : eb = Bailout("none", c, NotYetEscaped)
    /\ GridModelIdle
    /\ ColoringIdle /\ CyclesIdle /\ InteriorIdle /\ JuliaIdle /\ RayIdle /\ ProfilesIdle

BailoutRest == <<gridModelVars, coloringVars, cyclesVars, interiorVars, juliaVars, rayVars,
    profilesVars>>

\* The classifier calls early_bailout(start, c) on the parameter of the sample.
EarlyBailout ==
    /\ eb.op = "none"
    /\ eb' = Bailout("early_bailout", eb.c, early_bailout(eb.c))
    /\ UNCHANGED BailoutRest

BailoutNext == EarlyBailout

SpecBailout == BailoutInit /\ [][BailoutNext]_vars

\* C17: at c = 0 the origin is classified Periodic with period 1, preperiod 0 and
\* multiplier 0, by early_bailout.
C17_OriginAtZero ==
    eb.op = "early_bailout" /\ eb.c = CZero =>
        /\ eb.res.state = "Periodic" /\ eb.res.period = 1
        /\ eb.res.preperiod = 0 /\ eb.res.multiplier = CZero

\* C17 witness: early_bailout has returned at c = 0, with the fixed point 0.
C17_Witness ==
    eb.op = "early_bailout" /\ eb.c = CZero /\ eb.res.value = CZero

\* Within 1 of 4.
NearFour(z) == RLe(norm_sqr(CSub(z, CReal(R(4)))), R(1))

\* C18 as stated: at c = -1 the origin is classified Periodic with period 2 and a
\* multiplier of approximately 4.
C18_BasilicaMultiplierFour ==
    eb.op = "early_bailout" /\ eb.c = CNeg(COne) =>
        /\ eb.res.state = "Periodic" /\ eb.res.period = 2
        /\ NearFour(eb.res.multiplier)

\* C18 amended: at c = -1 the origin is classified Periodic with period 2 and
\* multiplier 4c + 4 = 0, the multiplier of the 2-cycle {0, -1}, which holds the
\* critical point 0.
C18_BasilicaSuperattracting ==
    eb.op = "early_bailout" /\ eb.c = CNeg(COne) =>
        /\ eb.res.state = "Periodic" /\ eb.res.period = 2
        /\ eb.res.multiplier = CZero
        /\ eb.res.value = CNeg(COne)

\* C18 witness: early_bailout has returned at c = -1, from the bulb's arm.
C18_Witness ==
    eb.op = "early_bailout" /\ eb.c = CNeg(COne) /\ eb.res.period = 2

----------------------------------------------------------------------------
(* JuliaSet::external_ray *)

\* The two globals of the tracer, and the ranges of the sample.
RAY_DEPTH == 2
RAY_SHARPNESS == 2
MaxRayRes == 2
MaxLevel == 2

\* An f64: a finite rational, an infinity or a NaN.
Finite(q) == [kind |-> "num", v |-> q]
F64Inf == [kind |-> "inf", v |-> R(0)]
F64NaN == [kind |-> "nan", v |-> R(0)]

RECURSIVE IPow(_, _)
IPow(b, n) == IF n = 0 THEN 1 ELSE b * IPow(b, n - 1)

\* b to the power e, for an integer e of either sign.
RPow(b, e) == IF e < 0 THEN Rat(1, IPow(b, -e)) ELSE R(IPow(b, e))

\* f64::powi: a NaN base gives NaN unless the exponent is 0.
powi(x, n) ==
    IF x.kind = "nan" THEN (IF n = 0 THEN Finite(R(1)) ELSE F64NaN)
    ELSE Finite(R(IPow(x.v[1], n)))

\* x.log(deg) for x a power of deg, and NaN for a NaN.
log(x, deg) ==
    IF x.kind = "nan" THEN F64NaN
    ELSE Finite(R(CHOOSE e \in -1..(MaxLevel + 1) : RPow(deg, e) = x.v))

\* a * b and a / b in f64, for b a norm (never negative): x / 0 is an infinity,
\* 0 / 0 and anything with a NaN a NaN.
FMul(a, b) ==
    IF a.kind = "nan" \/ b.kind = "nan" THEN F64NaN ELSE Finite(RMul(a.v, b.v))
FDiv(a, b) ==
    IF a.kind = "nan" \/ b.kind = "nan" THEN F64NaN
    ELSE IF b.v[1] # 0 THEN Finite(RDiv(a.v, b.v))
    ELSE IF a.v[1] = 0 THEN F64NaN
    ELSE F64Inf

\* a < b in f64 for a finite b: false for a NaN, and for the infinity above.
FLt(a, b) == a.kind = "num" /\ RLt(a.v, b.v)

\* The turn t taken in [0, 1): exp(i * TAU * t) has period 1 in t.
Turns(t) == Rat(t[1] % t[2], t[2])

\* radius * Cplx::new(0., TAU * turns).exp()
Polar(radius, turns) == [radius |-> radius, turns |-> Turns(turns)]

RayNone == [some |-> FALSE, v |-> <<>>]
RaySome(z_list) == [some |-> TRUE, v |-> z_list]

\* The receiver: degree and escaping_period are the parent's, the grid is the
\* JuliaSet's own.
RayBounds == MkBounds(R(-2), R(2), R(-2), R(2))
RayGrids == {PointGrid_new(res_x, res_x, RayBounds) : res_x \in 1..MaxRayRes}
Degrees == {Finite(R(2)), F64NaN}
EscapingPeriods == {1, 2}
RayFamilies ==
    {[degree |-> d, escaping_period |-> p, point_grid |-> g] :
        d \in Degrees, p \in EscapingPeriods, g \in RayGrids}
Thetas == {R(0), Rat(1, 4)}

escape_radius == 400

\* let deg = self.degree().powi(self.escaping_period() as i32);
effective_degree(self) == powi(self.degree, self.escaping_period)

\* let pixel_width = self.point_grid().pixel_width() * 0.3;
ray_pixel_width_whole(self) == pixel_width(self.point_grid)
ray_pixel_width(self) == RMul(pixel_width(self.point_grid), Rat(3, 10))

\* let error = self.point_grid().res_x as Real * 1e-8;
ray_error(self) == RMul(as_Real(self.point_grid.res_x), Rat(1, 100000000))

\* let angle = theta * TAU; let base_point = escape_radius * Cplx::new(0., angle).exp();
base_point_half(theta) == Polar(escape_radius, RMul(theta, Rat(1, 2)))
base_point(theta) == Polar(escape_radius, theta)

\* The j-th target of a level: (u + v).exp() with u = ln(escape_radius) *
\* deg^(-j / RAY_SHARPNESS) and v = i * angle * deg_k.
Target(j, v) == [level |-> Rat(j, RAY_SHARPNESS), turns |-> v]

\* What newton_until_convergence_d(fk_and_dfk, temp_z, target, error) can
\* return: sol, z_k and d_k. A solve that converged returns the preimage of the
\* target under n_iter steps of the map, with z_k on the target, outside the
\* unit circle; one that did not returns the point the iteration was left at,
\* with z_k anywhere, or a NaN. The norms of z_k are powers of deg.
Solved(n_iter, target) == [n_iter |-> n_iter, target |-> target, converged |-> TRUE]
Unsolved(n_iter, target) == [n_iter |-> n_iter, target |-> target, converged |-> FALSE]
OnTarget(deg) == {Finite(RPow(deg, e)) : e \in 1..MaxLevel}
ZNorms(deg) == {Finite(RPow(deg, e)) : e \in -1..MaxLevel} \cup {F64NaN}
DNorms == {Finite(R(0)), Finite(R(8))}
newton_until_convergence_d(n_iter, temp_z, target, error, deg) ==
    {[sol |-> Solved(n_iter, target), z_norm |-> zn, d_norm |-> dn] :
        zn \in OnTarget(deg), dn \in DNorms}
    \cup {[sol |-> Unsolved(n_iter, target), z_norm |-> zn, d_norm |-> dn] :
        zn \in ZNorms(deg), dn \in DNorms}

\* dist = (2. * z_k.norm() * (z_k.norm()).log(deg)) / d_k.norm();
ray_dist(z_norm, d_norm, deg) ==
    FDiv(FMul(FMul(Finite(R(2)), z_norm), log(z_norm, deg)), d_norm)

\* The call: its arguments, the locals of external_ray, the position in the
\* two loops, the number of Newton solves run, and the value returned.
RayCall(self, theta) ==
    [op |-> "call", self |-> self, theta |-> theta,
     deg |-> F64NaN, pixel_width |-> R(0), error |-> R(0),
     z_list |-> <<>>, deg_k |-> 1, v |-> R(0), temp_z |-> base_point(theta),
     k |-> 0, j |-> 0, solves |-> 0, dist |-> F64NaN,
     stop |-> "", res |-> RayNone]

\* The head of the loop on k: the angle of the level's targets, deg_k *= deg,
\* and `let mut temp_z = *z_list.last()?;`.
enter_level(r) ==
    IF r.z_list = <<>>
    THEN [r EXCEPT !.op = "return", !.stop = "last", !.res = RayNone]
    ELSE [r EXCEPT !.op = "loop",
                   !.v = Turns(RMul(r.theta, R(r.deg_k))),
                   !.deg_k = r.deg_k * r.deg.v[1],
                   !.temp_z = r.z_list[Len(r.z_list)],
                   !.j = 0]

\* external_ray up to its first Newton solve.
external_ray_begin(r) ==
    LET deg == effective_degree(r.self)
    IN  IF deg.kind = "nan"
        THEN [r EXCEPT !.op = "return", !.deg = deg, !.stop = "nan", !.res = RayNone]
        ELSE enter_level([r EXCEPT !.deg = deg,
                                   !.pixel_width = ray_pixel_width(r.self),
                                   !.error = ray_error(r.self),
                                   !.z_list = <<base_point(r.theta)>>,
                                   !.deg_k = 1,
                                   !.k = 0])

\* What follows a target that did not end the call: the next target, the next
\* level, or `Some(z_list)` after the last level.
next_target(r) ==
    IF r.j + 1 < RAY_SHARPNESS THEN [r EXCEPT !.j = r.j + 1]
    ELSE IF r.k + 1 < RAY_DEPTH THEN enter_level([r EXCEPT !.k = r.k + 1])
    ELSE [r EXCEPT !.op = "return", !.stop = "depth", !.res = RaySome(r.z_list)]

\* The body of the loop on the targets, for what the Newton solve returned.
\* The variant appends the point of a solve only when it has converged.
solve_target_converged(r, ret) ==
    LET dist == ray_dist(ret.z_norm, ret.d_norm, r.deg.v[1])
        z_list == IF ret.sol.converged THEN Append(r.z_list, ret.sol) ELSE r.z_list
        s == [r EXCEPT !.temp_z = ret.sol, !.dist = dist, !.z_list = z_list,
                       !.solves = r.solves + 1]
    IN  IF FLt(dist, Finite(r.pixel_width))
        THEN [s EXCEPT !.op = "return", !.stop = "early", !.res = RaySome(z_list)]
        ELSE next_target(s)
solve_target(r, ret) ==
    LET dist == ray_dist(ret.z_norm, ret.d_norm, r.deg.v[1])
        z_list == Append(r.z_list, ret.sol)
        s == [r EXCEPT !.temp_z = ret.sol, !.dist = dist, !.z_list = z_list,
                       !.solves = r.solves + 1]
    IN  IF FLt(dist, Finite(r.pixel_width))
        THEN [s EXCEPT !.op = "return", !.stop = "early", !.res = RaySome(z_list)]
        ELSE next_target(s)

RayInit ==
    /\ \E self \in RayFamilies, theta \in Thetas : ray = RayCall(self, theta)
    /\ GridModelIdle
    /\ ColoringIdle /\ CyclesIdle /\ BailoutIdle /\ InteriorIdle /\ JuliaIdle /\ ProfilesIdle

RayRest == <<gridModelVars, coloringVars, cyclesVars, bailoutVars, interiorVars, juliaVars,
    profilesVars>>

RayBegin ==
    /\ ray.op = "call"
    /\ ray' = external_ray_begin(ray)
    /\ UNCHANGED RayRest

RaySolve ==
    /\ ray.op = "loop"
    /\ \E ret \in newton_until_convergence_d(ray.k * ray.self.escaping_period,
                                             ray.temp_z, Target(ray.j, ray.v),
                                             ray.error, ray.deg.v[1]) :
          ray' = solve_target(ray, ret)
    /\ UNCHANGED RayRest

RayNext == RayBegin \/ RaySolve

SpecRay == RayInit /\ [][RayNext]_vars

\* C13: external_ray returns None if and only if the effective degree
\* degree()^escaping_period() is NaN; otherwise it returns Some polyline, which
\* is not empty and starts at the base point, on the circle of radius 400 at the
\* angle 2 * pi * theta.
C13_NoneIffNaNDegree ==
    ray.op = "return" =>
        /\ ~ray.res.some <=> ray.deg.kind = "nan"
        /\ ray.res.some =>
              /\ Len(ray.res.v) >= 1
              /\ ray.res.v[1] = [radius |-> 400, turns |-> ray.theta]

\* C13 witness: a call on a family of NaN degree has returned None.
C13_Witness ==
    ray.op = "return" /\ ~ray.res.some /\ ray.self.degree.kind = "nan"

\* C14: a call runs at most RAY_DEPTH * RAY_SHARPNESS Newton solves and the
\* polyline holds the base point and one point for each solve; a call of defined
\* degree returns Some polyline whether or not its solves converged; and the
\* call ends: each of its steps but the first runs one more solve, and a call
\* that has not returned has solves left to run.
C14_BoundedByDepthTimesSharpness ==
    /\ [](/\ ray.solves <= RAY_DEPTH * RAY_SHARPNESS
          /\ ray.op = "loop" =>
                /\ Len(ray.z_list) = 1 + ray.solves
                /\ ray.solves < RAY_DEPTH * RAY_SHARPNESS
          /\ ray.op = "return" /\ ray.deg.kind # "nan" =>
                /\ ray.res = RaySome(ray.z_list)
                /\ Len(ray.res.v) = 1 + ray.solves
                /\ Len(ray.res.v) <= 1 + RAY_DEPTH * RAY_SHARPNESS)
    /\ [][\/ ray.op = "call" /\ ray'.op # "call" /\ ray'.solves = 0
          \/ ray.op = "loop" /\ ray'.op # "call" /\ ray'.solves = ray.solves + 1]_vars

\* C14 witness: a call has returned after all its solves, one of which did not
\* converge.
C14_Witness ==
    /\ ray.op = "return" /\ ray.solves = RAY_DEPTH * RAY_SHARPNESS
    /\ Len(ray.res.v) = 1 + RAY_DEPTH * RAY_SHARPNESS
    /\ \E i \in 2..Len(ray.res.v) : ~ray.res.v[i].converged

\* What a Newton solve leaves behind it, for the threshold the estimate is held
\* against: the call ends there, on the point just solved, exactly when the
\* estimate is below the threshold; it ends for the depth only after
\* RAY_DEPTH * RAY_SHARPNESS solves, and goes on otherwise.
StopsBelow(threshold) ==
    ray.op = "loop" /\ ray'.solves = ray.solves + 1 =>
        /\ ray'.stop = "early" <=> FLt(ray'.dist, Finite(threshold))
        /\ ray'.stop = "early" =>
              /\ ray'.op = "return"
              /\ ray'.res = RaySome(Append(ray.z_list, ray'.temp_z))
        /\ ray'.stop = "depth" =>
              ray'.op = "return" /\ ray'.solves = RAY_DEPTH * RAY_SHARPNESS
        /\ ray'.stop = "" => ray'.op = "loop"

\* C15 as stated: external_ray stops early exactly when the estimated distance
\* of the point just solved is below the pixel width of the grid, and goes on to
\* the last target otherwise.
C15_StopsBelowPixelWidth ==
    [][StopsBelow(pixel_width(ray.self.point_grid))]_vars

\* C15 amended: external_ray stops early exactly when the estimated distance of
\* the point just solved is below 0.3 times the pixel width of the grid; on any
\* other estimate, a NaN included, it goes on to the last target.
C15_StopsBelowThreeTenthsOfPixelWidth ==
    [][StopsBelow(RMul(pixel_width(ray.self.point_grid), Rat(3, 10)))]_vars

\* C15 witness: a call has stopped early, before its last target.
C15_Witness ==
    /\ ray.op = "return" /\ ray.stop = "early"
    /\ ray.solves < RAY_DEPTH * RAY_SHARPNESS
    /\ ray.res.v[Len(ray.res.v)] = ray.temp_z

----------------------------------------------------------------------------
(* SpecTable: a ChebyshevCoeffTable (profiles/src/polynomials/chebyshev.rs) *)

\* Largest degree requested from a ChebyshevCoeffTable.
MaxDegree == 10

\* i32::MAX and i32::MIN, the range of a coefficient.
I32Max == 2147483647
I32Min == -I32Max - 1

\* 2 * b in i32: whether it overflows, and the value it wraps to.
mul2_overflows(b) == b > I32Max \div 2 \/ b < -(I32Max \div 2) - 1
wrapping_mul2(b) ==
    IF b > I32Max \div 2 THEN 2 * (b - (I32Max \div 2) - 1) + I32Min
    ELSE IF b < -(I32Max \div 2) - 1 THEN (2 * (b + (I32Max \div 2) + 1) + I32Max) + 1
    ELSE 2 * b

\* x - a in i32: whether it overflows, and the value it wraps to.
sub_overflows(x, a) ==
    \/ a > 0 /\ x < I32Min + a
    \/ a < 0 /\ x > I32Max + a
wrapping_sub(x, a) ==
    IF a > 0 /\ x < I32Min + a THEN ((x - I32Min) + (I32Max - a)) + 1
    ELSE IF a < 0 /\ x > I32Max + a THEN ((x - I32Max) + (I32Min - a)) - 1
    ELSE x - a

\* |(&a, &b)| 2 * b - a
two_b_minus_a(a, b) == wrapping_sub(wrapping_mul2(b), a)
two_b_minus_a_overflows(a, b) ==
    mul2_overflows(b) \/ sub_overflows(wrapping_mul2(b), a)

\* The table of Default: vec![vec![1], vec![1]]; no step has overflowed.
ChebyshevCoeffTable_default == [coeffs |-> <<(<<1>>), (<<1>>)>>, overflow |-> FALSE]

\* coeff0.zip(coeff1).map(..).collect(): zip stops with the shorter of the two.
zip_map(coeff0, coeff1) ==
    LET len == IF Len(coeff0) < Len(coeff1) THEN Len(coeff0) ELSE Len(coeff1)
    IN  [row |-> [k \in 1..len |-> two_b_minus_a(coeff0[k], coeff1[k])],
         overflow |-> \E k \in 1..len : two_b_minus_a_overflows(coeff0[k], coeff1[k])]

\* extend with the zero put in front of coeffs[n - 1] for every n: the row of an
\* odd degree comes out one place too far to the right.
extend_shifted(self) ==
    LET n == Len(self.coeffs)
        new_coeff == zip_map(Append(self.coeffs[n - 1], 0), <<0>> \o self.coeffs[n])
    IN  [coeffs |-> Append(self.coeffs, new_coeff.row),
         overflow |-> self.overflow \/ new_coeff.overflow]

\* ChebyshevCoeffTable::extend: the row of degree n = coeffs.len() from the rows of
\* degrees n - 2 and n - 1 (coeffs[k + 1] here is the code's coeffs[k]).
extend(self) ==
    LET n == Len(self.coeffs)
        coeff0 == Append(self.coeffs[n - 1], 0)
        coeff1 == IF n % 2 = 0 THEN <<0>> \o self.coeffs[n] ELSE self.coeffs[n]
        new_coeff == zip_map(coeff0, coeff1)
    IN  [coeffs |-> Append(self.coeffs, new_coeff.row),
         overflow |-> self.overflow \/ new_coeff.overflow]

\* ChebyshevCoeffTable::extend_to: while self.coeffs.len() <= degree { self.extend() }
RECURSIVE extend_to(_, _)
extend_to(self, degree) ==
    IF Len(self.coeffs) <= degree THEN extend_to(extend(self), degree) ELSE self

\* ChebyshevCoeffTable::with_max_degree and ChebyshevCoeffTable::new
with_max_degree(self, degree) == extend_to(self, degree)
ChebyshevCoeffTable_new(max_degree) ==
    with_max_degree(ChebyshevCoeffTable_default, max_degree)

\* ChebyshevCoeffTable::coefficients: the table after the call, and the row returned.
coefficients(self, degree) ==
    LET t == extend_to(self, degree)
    IN  [self |-> t, res |-> t.coeffs[degree + 1]]

TableCall(op, degree, self, res) ==
    [op |-> op, degree |-> degree, coeffs |-> self.coeffs, overflow |-> self.overflow,
     res |-> res]
TableSelf == [coeffs |-> ctable.coeffs, overflow |-> ctable.overflow]

TableInit ==
    /\ ctable = TableCall("default", 0, ChebyshevCoeffTable_default, <<>>)
    /\ GridModelIdle /\ ColoringIdle /\ CyclesIdle /\ BailoutIdle /\ InteriorIdle
    /\ JuliaIdle /\ RayIdle /\ ChebyshevIdle /\ QuadRatIdle /\ MarkingIdle

TableRest == <<gridModelVars, coloringVars, cyclesVars, bailoutVars, interiorVars,
               juliaVars, rayVars, chebyshevVars, quadRatVars, markingVars>>

TableNew(max_degree) ==
    /\ ctable' = TableCall("new", max_degree, ChebyshevCoeffTable_new(max_degree), <<>>)
    /\ UNCHANGED TableRest

TableExtend ==
    /\ Len(ctable.coeffs) <= MaxDegree
    /\ ctable' = TableCall("extend", 0, extend(TableSelf), <<>>)
    /\ UNCHANGED TableRest

TableExtendTo(degree) ==
    /\ ctable' = TableCall("extend_to", degree, extend_to(TableSelf, degree), <<>>)
    /\ UNCHANGED TableRest

TableCoefficients(degree) ==
    /\ LET r == coefficients(TableSelf, degree)
       IN  ctable' = TableCall("coefficients", degree, r.self, r.res)
    /\ UNCHANGED TableRest

TableNext ==
    \/ \E d \in 0..MaxDegree : TableNew(d)
    \/ TableExtend
    \/ \E d \in 0..MaxDegree : TableExtendTo(d)
    \/ \E d \in 0..MaxDegree : TableCoefficients(d)

SpecTable == TableInit /\ [][TableNext]_vars

\* The Chebyshev polynomial T_n as the list of its n + 1 coefficients in ascending
\* powers of x: T_0 = 1, T_1 = x, T_n = 2x * T_(n-1) - T_(n-2).
RECURSIVE ChebyshevT(_)
ChebyshevT(n) ==
    IF n = 0 THEN <<1>>
    ELSE IF n = 1 THEN <<0, 1>>
    ELSE LET p == ChebyshevT(n - 1)
             q == ChebyshevT(n - 2)
         IN  [k \in 1..(n + 1) |->
                 (IF k >= 2 THEN 2 * p[k - 1] ELSE 0) - (IF k <= n - 1 THEN q[k] ELSE 0)]

\* T_d in ascending powers of x^2, the common factor x dropped for odd d.
InPowersOfSquare(d) ==
    [k \in 1..((d \div 2) + 1) |-> ChebyshevT(d)[2 * (k - 1) + (d % 2) + 1]]

\* C23: coefficients(d) returns the coefficients of T_d in ascending powers of x^2
\* (the factor x dropped for odd d), floor(d/2) + 1 of them, whatever was requested
\* of the table before: [-1, 2] for d = 2, [-3, 4] for d = 3, [1, -8, 8] for d = 4;
\* every row the table holds is such a row, and no step of the recurrence has
\* overflowed i32.
C23_CoefficientsAreChebyshev ==
    /\ ~ctable.overflow
    /\ \A k \in 1..Len(ctable.coeffs) : ctable.coeffs[k] = InPowersOfSquare(k - 1)
    /\ ctable.op = "coefficients" =>
           /\ ctable.res = InPowersOfSquare(ctable.degree)
           /\ Len(ctable.res) = (ctable.degree \div 2) + 1
           /\ ctable.degree = 0 => ctable.res = <<1>>
           /\ ctable.degree = 1 => ctable.res = <<1>>
           /\ ctable.degree = 2 => ctable.res = <<-1, 2>>
           /\ ctable.degree = 3 => ctable.res = <<-3, 4>>
           /\ ctable.degree = 4 => ctable.res = <<1, -8, 8>>

\* C23 witness: T_4 is asked of a table that already holds the rows up to degree 10,
\* and T_5 = 16x^5 - 20x^3 + 5x is among them.
C23_Witness ==
    /\ ctable.op = "coefficients" /\ ctable.degree = 4
    /\ ctable.res = <<1, -8, 8>>
    /\ Len(ctable.coeffs) = 11
    /\ ctable.coeffs[6] = <<5, -20, 16>>

----------------------------------------------------------------------------
(* SpecChebyshev: the maps of Chebyshev<D> (profiles/src/polynomials/chebyshev.rs) *)

\* Largest D of a Chebyshev<D>.
MaxD == 5

\* impl Default for Chebyshev<D>: coeffs is the row of degree 2D of the table, times
\* sign = 1 - 2 * (D % 2); coeffs_d is coeffs.enumerate().skip(1).map(|(k, a)| k * a).
Chebyshev_default(D) ==
    LET sign == 1 - 2 * (D % 2)
        row == coefficients(ChebyshevCoeffTable_new(2 * D), 2 * D).res
        coeffs == [k \in 1..Len(row) |-> R(sign * row[k])]
    IN  [D |-> D, coeffs |-> coeffs,
         coeffs_d |-> [k \in 1..(Len(coeffs) - 1) |-> RMul(R(k), coeffs[k + 1])]]

\* TLC evaluates the argument of an operator where the operator first uses it, so
\* a chain of arithmetic is evaluated as one deep nest. Then(v, e) is e, with v
\* evaluated first.
Then(v, e) == IF v = v THEN e ELSE e

\* let an = *iter.next().unwrap_or(&0.0); let mut val = Cplx::from(an);
\* for &a in iter { val = val * u + a }: the value of val once the loop has added
\* the coefficient at place k, the coefficients being taken from the last down.
RECURSIVE horner_loop(_, _, _)
horner_loop(coeffs, k, u) ==
    IF k = Len(coeffs) THEN CReal(coeffs[k])
    ELSE LET val == horner_loop(coeffs, k + 1, u)
         IN  Then(val, CAdd(CMul(val, u), CReal(coeffs[k])))

\* The loop run to its end; an empty list gives the 0.0 of unwrap_or.
horner_rev(coeffs, u) ==
    IF coeffs = <<>> THEN CReal(R(0)) ELSE horner_loop(coeffs, 1, u)

\* Chebyshev::map
Chebyshev_map(self, z, c) ==
    LET z2 == CScale(Rat(1, 4), CMul(z, z))
        zval == Then(z2, horner_rev(self.coeffs, z2))
    IN  Then(zval, CMul(c, zval))

\* Chebyshev::map_and_multiplier
Chebyshev_map_and_multiplier(self, z, c) ==
    LET w == CScale(Rat(1, 2), z)
        w2 == Then(w, CMul(w, w))
        zval == Then(w2, horner_rev(self.coeffs, w2))
        dval == Then(w2, horner_rev(self.coeffs_d, w2))
        cd == Then(dval, CMul(c, dval))
    IN  Then(<<zval, cd>>, <<CMul(c, zval), CMul(cd, w)>>)

\* Chebyshev::dynamical_derivative
Chebyshev_dynamical_derivative(self, z, c) ==
    LET z2 == CScale(Rat(1, 4), CMul(z, z))
        result == Then(z2, horner_rev(self.coeffs_d, z2))
        cr == Then(result, CMul(c, result))
    IN  Then(cr, CMul(cr, z))

\* Chebyshev::gradient
Chebyshev_gradient(self, z, c) ==
    LET w == CScale(Rat(1, 2), z)
        w2 == Then(w, CMul(w, w))
        zval == Then(w2, horner_rev(self.coeffs, w2))
        dval == Then(w2, horner_rev(self.coeffs_d, w2))
        cd == Then(dval, CMul(c, dval))
    IN  Then(<<zval, cd>>, <<CMul(c, zval), CMul(cd, w), zval>>)

\* The points and parameters the maps are evaluated at.
ChebyshevVars ==
    {Cplx(R(0), R(0)), Cplx(R(1), R(0)), Cplx(R(2), R(0)), Cplx(R(0), R(1)),
     Cplx(R(1), R(1))}
ChebyshevParams ==
    {Cplx(R(1), R(0)), Cplx(R(0), R(1)), Cplx(Rat(1, 2), R(0)), Cplx(R(2), R(1))}

ChebyshevCall(op, self, z, c, res) ==
    [op |-> op, D |-> self.D, coeffs |-> self.coeffs, coeffs_d |-> self.coeffs_d,
     z |-> z, c |-> c, res |-> res]
ChebyshevSelf == [D |-> cheb.D, coeffs |-> cheb.coeffs, coeffs_d |-> cheb.coeffs_d]

ChebyshevInit ==
    /\ \E D \in 1..MaxD :
           cheb = ChebyshevCall("default", Chebyshev_default(D), Cplx(R(0), R(0)),
                                Cplx(R(0), R(0)), <<>>)
    /\ GridModelIdle /\ ColoringIdle /\ CyclesIdle /\ BailoutIdle /\ InteriorIdle
    /\ JuliaIdle /\ RayIdle /\ TableIdle /\ QuadRatIdle /\ MarkingIdle

ChebyshevRest == <<gridModelVars, coloringVars, cyclesVars, bailoutVars, interiorVars,
                   juliaVars, rayVars, tableVars, quadRatVars, markingVars>>

ChebyshevMap(z, c) ==
    /\ cheb.op = "default"
    /\ cheb' = ChebyshevCall("map", ChebyshevSelf, z, c,
                             <<Chebyshev_map(ChebyshevSelf, z, c)>>)
    /\ UNCHANGED ChebyshevRest

ChebyshevMapAndMultiplier(z, c) ==
    /\ cheb.op = "default"
    /\ cheb' = ChebyshevCall("map_and_multiplier", ChebyshevSelf, z, c,
                             Chebyshev_map_and_multiplier(ChebyshevSelf, z, c))
    /\ UNCHANGED ChebyshevRest

ChebyshevDynamicalDerivative(z, c) ==
    /\ cheb.op = "default"
    /\ cheb' = ChebyshevCall("dynamical_derivative", ChebyshevSelf, z, c,
                             <<Chebyshev_dynamical_derivative(ChebyshevSelf, z, c)>>)
    /\ UNCHANGED ChebyshevRest

ChebyshevGradient(z, c) ==
    /\ cheb.op = "default"
    /\ cheb' = ChebyshevCall("gradient", ChebyshevSelf, z, c,
                             Chebyshev_gradient(ChebyshevSelf, z, c))
    /\ UNCHANGED ChebyshevRest

\* The maps take &self: a call leaves the Chebyshev<D> as it was, and each behaviour
\* makes one call.
ChebyshevNext ==
    \E z \in ChebyshevVars, c \in ChebyshevParams :
        \/ ChebyshevMap(z, c)
        \/ ChebyshevMapAndMultiplier(z, c)
        \/ ChebyshevDynamicalDerivative(z, c)
        \/ ChebyshevGradient(z, c)

SpecChebyshev == ChebyshevInit /\ [][ChebyshevNext]_vars

\* C22: for every Chebyshev<D> and every (z, c), the first component of
\* map_and_multiplier(z, c) equals map(z, c) and its second component equals
\* dynamical_derivative(z, c).
C22_MultiplierIsDynamicalDerivative ==
    cheb.op = "map_and_multiplier" =>
        /\ cheb.res[1] = Chebyshev_map(ChebyshevSelf, cheb.z, cheb.c)
        /\ cheb.res[2] = Chebyshev_dynamical_derivative(ChebyshevSelf, cheb.z, cheb.c)

----------------------------------------------------------------------------
(* SpecStore: a MarkedObjectStore and its task queue (gui/src/marked_points.rs) *)

\* Largest number of tasks waiting in the queue of a store.
MaxTasks == 2

\* The keys of the two stores of a Marking: PointSetKey and CurveKey (one period,
\* one angle and one base point).
PointSetKeys == {"CriticalPoints", "PeriodicPoints"}
CurveKeys == {"Orbit", "Ray", "Equipotential"}

\* What process_all_tasks is given: the plane (named by a number: two planes differ
\* in what they compute), the selection and the palette (named by a number too).
Planes == {1, 2}
DiscretePalettes == {1, 2}
Envs == [plane : Planes, selection : {0}, palette : DiscretePalettes]

\* ObjectKey::color_with of PointSetKey and of CurveKey: a constant for four of the
\* keys, taken from the palette (and, for a ray, the degree) for the other two.
color_with(key, palette, degree) ==
    CASE key = "SelectedPoint" -> <<"WHITE">>
      [] key = "CriticalPoints" -> <<"RED">>
      [] key = "PeriodicPoints" -> <<"palette.map", palette>>
      [] key = "Orbit" -> <<"GREEN">>
      [] key = "Ray" -> <<"palette.map_preperiodic", palette, degree>>
      [] key = "Equipotential" -> <<"YELLOW">>

\* ObjectKey::compute of PointSetKey and of CurveKey: the object is what the plane
\* computes for the key; the selected point and the orbit depend on the selection.
compute(key, plane, selection) ==
    CASE key = "SelectedPoint" -> <<"selection", selection>>
      [] key = "CriticalPoints" -> <<"critical_points", plane>>
      [] key = "PeriodicPoints" -> <<"cycles", plane>>
      [] key = "Orbit" -> <<"iter_orbit", plane, selection>>
      [] key = "Ray" -> <<"external_ray", plane>>
      [] key = "Equipotential" -> <<"equipotential", plane>>

\* HashMap::insert and HashMap::remove on objects, a function on the keys present.
insert(objects, key, col_obj) ==
    [k \in (DOMAIN objects) \cup {key} |-> IF k = key THEN col_obj ELSE objects[k]]
remove(objects, key) == [k \in (DOMAIN objects) \ {key} |-> objects[k]]

MarkingTask(kind, key) == [kind |-> kind, key |-> key]

\* impl Default for MarkedObjectStore
MarkedObjectStore_default == [objects |-> <<>>, tasks |-> <<>>, degree |-> 0]

\* MarkedObjectStore::sched_toggle .. sched_recolor_all: tasks.push_back(task)
sched(self, task) == [self EXCEPT !.tasks = Append(self.tasks, task)]

\* MarkedObjectStore::enable
enable(self, key, e) ==
    LET col_obj == [object |-> compute(key, e.plane, e.selection),
                    color |-> color_with(key, e.palette, self.degree),
                    visible |-> TRUE]
    IN  [self EXCEPT !.objects = insert(self.objects, key, col_obj)]

\* disable that leaves the key where it is.
disable_nothing(self, key) == self

\* MarkedObjectStore::disable
disable(self, key) == [self EXCEPT !.objects = remove(self.objects, key)]

\* MarkedObjectStore::recolor_all
recolor_all(self, palette) ==
    [self EXCEPT !.objects =
        [k \in DOMAIN self.objects |->
            [self.objects[k] EXCEPT !.color = color_with(k, palette, self.degree)]]]

\* MarkedObjectStore::recompute_all
recompute_all(self, plane, selection) ==
    [self EXCEPT !.objects =
        [k \in DOMAIN self.objects |->
            [self.objects[k] EXCEPT !.object = compute(k, plane, selection)]]]

\* MarkedObjectStore::process_task
process_task(self, task, e) ==
    CASE task.kind = "Enable" -> enable(self, task.key, e)
      [] task.kind = "Disable" -> disable(self, task.key)
      [] task.kind = "Toggle" ->
             IF task.key \in DOMAIN self.objects THEN disable(self, task.key)
             ELSE enable(self, task.key, e)
      [] task.kind = "Recompute" ->
             IF task.key \in DOMAIN self.objects
             THEN [self EXCEPT !.objects[task.key] =
                      [@ EXCEPT !.object = compute(task.key, e.plane, e.selection),
                                !.color = color_with(task.key, e.palette, self.degree)]]
             ELSE self
      [] task.kind = "Recolor" ->
             IF task.key \in DOMAIN self.objects
             THEN [self EXCEPT !.objects[task.key].color =
                      color_with(task.key, e.palette, self.degree)]
             ELSE self
      [] task.kind = "RecomputeAll" -> recompute_all(self, e.plane, e.selection)
      [] task.kind = "RecolorAll" -> recolor_all(self, e.palette)

\* for task in &tasks { self.process_task(task.clone(), env) }: the store after the
\* loop, and the steps the loop took (the task, the objects before and after it).
RECURSIVE for_task_in(_, _, _, _)
for_task_in(tasks, self, env, steps) ==
    IF tasks = <<>> THEN [self |-> self, steps |-> steps]
    ELSE LET after == process_task(self, Head(tasks), env)
         IN  for_task_in(Tail(tasks), after, env,
                         Append(steps, [task |-> Head(tasks), pre |-> self.objects,
                                        post |-> after.objects]))

Reverse(s) == [k \in 1..Len(s) |-> s[Len(s) + 1 - k]]

\* process_all_tasks with the drained tasks taken from the back of the queue.
process_all_tasks_from_back(self, env) ==
    for_task_in(Reverse(self.tasks), [self EXCEPT !.tasks = <<>>], env, <<>>)

\* MarkedObjectStore::process_all_tasks: tasks.drain(..).collect(), then the loop.
process_all_tasks(self, env) ==
    for_task_in(self.tasks, [self EXCEPT !.tasks = <<>>], env, <<>>)

\* MarkedObjectStore::clear_all_tasks and MarkedObjectStore::disable_all
clear_all_tasks(self) == [self EXCEPT !.tasks = <<>>]
disable_all(self) == [self EXCEPT !.objects = <<>>]

\* The tasks a point-set store can be given.
KeyTaskKinds == {"Enable", "Disable", "Toggle", "Recompute", "Recolor"}
PointSetTasks ==
    {MarkingTask(kind, key) : kind \in KeyTaskKinds, key \in PointSetKeys}
        \cup {MarkingTask("RecomputeAll", "all"), MarkingTask("RecolorAll", "all")}

\* The store, with the last operation on it: for process_all_tasks, the queue it
\* found, its environment and the steps it took.
StoreCall(op, self, queue, env, steps) ==
    [op |-> op, objects |-> self.objects, tasks |-> self.tasks, degree |-> self.degree,
     queue |-> queue, env |-> env, steps |-> steps]
StoreSelf == [objects |-> marking.objects, tasks |-> marking.tasks,
              degree |-> marking.degree]
NoEnv == [plane |-> 0, selection |-> 0, palette |-> 0]

StoreInit ==
    /\ marking = StoreCall("default", MarkedObjectStore_default, <<>>, NoEnv, <<>>)
    /\ GridModelIdle /\ ColoringIdle /\ CyclesIdle /\ BailoutIdle /\ InteriorIdle
    /\ JuliaIdle /\ RayIdle /\ TableIdle /\ ChebyshevIdle /\ QuadRatIdle

StoreRest == <<gridModelVars, coloringVars, cyclesVars, bailoutVars, interiorVars,
               juliaVars, rayVars, tableVars, chebyshevVars, quadRatVars>>

StoreSched(task) ==
    /\ Len(marking.tasks) < MaxTasks
    /\ marking' = StoreCall("sched", sched(StoreSelf, task), <<>>, NoEnv, <<>>)
    /\ UNCHANGED StoreRest

StoreProcessAllTasks(env) ==
    /\ LET r == process_all_tasks(StoreSelf, env)
       IN  marking' = StoreCall("process_all_tasks", r.self, marking.tasks, env, r.steps)
    /\ UNCHANGED StoreRest

StoreClearAllTasks ==
    /\ marking' = StoreCall("clear_all_tasks", clear_all_tasks(StoreSelf), <<>>, NoEnv,
                            <<>>)
    /\ UNCHANGED StoreRest

StoreDisableAll ==
    /\ marking' = StoreCall("disable_all", disable_all(StoreSelf), <<>>, NoEnv, <<>>)
    /\ UNCHANGED StoreRest

StoreNext ==
    \/ \E task \in PointSetTasks : StoreSched(task)
    \/ \E env \in Envs : StoreProcessAllTasks(env)
    \/ StoreClearAllTasks
    \/ StoreDisableAll

SpecStore == StoreInit /\ [][StoreNext]_vars

\* The object a key is given when it is enabled: freshly computed, coloured and
\* visible.
Fresh(key, env, degree) ==
    [object |-> compute(key, env.plane, env.selection),
     color |-> color_with(key, env.palette, degree), visible |-> TRUE]

\* C24: Toggle(k) removes k if it is present and otherwise inserts it freshly
\* computed, coloured and visible; two Toggle(k) processed one after the other
\* leave the set of enabled keys as it was; a second Enable(k) leaves that set as the
\* first left it; Disable(k) of an absent key changes nothing.
C24_ToggleEnableDisable ==
    marking.op = "process_all_tasks" =>
        /\ \A i \in 1..Len(marking.steps) :
               LET s == marking.steps[i]
                   k == s.task.key
               IN  /\ s.task.kind = "Toggle" /\ k \in DOMAIN s.pre =>
                          s.post = remove(s.pre, k)
                   /\ s.task.kind = "Toggle" /\ k \notin DOMAIN s.pre =>
                          /\ DOMAIN s.post = (DOMAIN s.pre) \cup {k}
                          /\ s.post[k] = Fresh(k, marking.env, marking.degree)
                          /\ \A j \in DOMAIN s.pre : s.post[j] = s.pre[j]
                   /\ s.task.kind = "Enable" =>
                          /\ DOMAIN s.post = (DOMAIN s.pre) \cup {k}
                          /\ s.post[k] = Fresh(k, marking.env, marking.degree)
                   /\ s.task.kind = "Disable" /\ k \notin DOMAIN s.pre => s.post = s.pre
        /\ \A i \in 1..(Len(marking.steps) - 1) :
               LET s == marking.steps[i]
                   t == marking.steps[i + 1]
               IN  /\ s.task.kind = "Toggle" /\ t.task = s.task =>
                          DOMAIN t.post = DOMAIN s.pre
                   /\ s.task.kind = "Enable" /\ t.task = s.task => t.post = s.post

\* C24 witness: Toggle(PeriodicPoints) twice on a store that holds the periodic
\* points, which are removed and then inserted afresh.
C24_Witness ==
    /\ marking.op = "process_all_tasks"
    /\ Len(marking.steps) = 2
    /\ marking.steps[1].task = MarkingTask("Toggle", "PeriodicPoints")
    /\ marking.steps[2].task = MarkingTask("Toggle", "PeriodicPoints")
    /\ "PeriodicPoints" \in DOMAIN marking.steps[1].pre
    /\ "PeriodicPoints" \notin DOMAIN marking.steps[1].post
    /\ "PeriodicPoints" \in DOMAIN marking.objects
    /\ marking.objects # marking.steps[1].pre

\* C29: process_all_tasks takes the tasks in the order they were scheduled, each
\* once, and leaves the queue empty; each step starts from the objects the step
\* before it left; Recompute(k) and Recolor(k) of a key that is absent at that moment
\* change nothing; RecomputeAll and RecolorAll add and remove no key.
C29_TasksInOrderOnce ==
    marking.op = "process_all_tasks" =>
        /\ marking.tasks = <<>>
        /\ Len(marking.steps) = Len(marking.queue)
        /\ \A i \in 1..Len(marking.steps) : marking.steps[i].task = marking.queue[i]
        /\ \A i \in 1..(Len(marking.steps) - 1) :
               marking.steps[i + 1].pre = marking.steps[i].post
        /\ marking.steps # <<>> =>
               marking.objects = marking.steps[Len(marking.steps)].post
        /\ \A i \in 1..Len(marking.steps) :
               LET s == marking.steps[i]
               IN  /\ s.task.kind \in {"Recompute", "Recolor"}
                          /\ s.task.key \notin DOMAIN s.pre => s.post = s.pre
                   /\ s.task.kind \in {"RecomputeAll", "RecolorAll"} =>
                          DOMAIN s.post = DOMAIN s.pre

\* C29 witness: Enable(CriticalPoints) and then Recompute(PeriodicPoints), scheduled
\* in that order and processed in that order, the second on an absent key.
C29_Witness ==
    /\ marking.op = "process_all_tasks"
    /\ marking.queue = <<MarkingTask("Enable", "CriticalPoints"),
                         MarkingTask("Recompute", "PeriodicPoints")>>
    /\ marking.steps[1].task = MarkingTask("Enable", "CriticalPoints")
    /\ "PeriodicPoints" \notin DOMAIN marking.steps[2].pre
    /\ DOMAIN marking.objects = {"CriticalPoints"}
    /\ marking.tasks = <<>>

----------------------------------------------------------------------------
(* SpecMarking: a Marking, its two stores and its path cache                *)
(* (gui/src/marked_points.rs)                                                *)

\* Largest number of tasks waiting in a queue of a Marking.
MaxPending == 1

\* impl Default for PathCache: no paths, and in need of a refresh. The paths are
\* kept as a set: update_cache fills the Vec in the order of a HashMap's values.
PathCache_default == [paths |-> {}, needs_refresh |-> TRUE]

\* PathCache::set_fresh and PathCache::set_stale
set_fresh(cache) == [cache EXCEPT !.needs_refresh = FALSE]
set_stale(cache) == [cache EXCEPT !.needs_refresh = TRUE]

\* #[derive(Default)] for Marking
Marking_default ==
    [point_sets |-> MarkedObjectStore_default, curves |-> MarkedObjectStore_default,
     path_cache |-> PathCache_default]

\* Marking::toggle_ray
Marking_toggle_ray(self) ==
    [self EXCEPT !.curves = sched(@, MarkingTask("Toggle", "Ray")),
                 !.path_cache = set_stale(@)]

\* Marking::enable_ray
Marking_enable_ray(self) ==
    [self EXCEPT !.curves = sched(@, MarkingTask("Enable", "Ray")),
                 !.path_cache = set_stale(@)]

\* Marking::toggle_equipotential
Marking_toggle_equipotential(self) ==
    [self EXCEPT !.curves = sched(@, MarkingTask("Toggle", "Equipotential")),
                 !.path_cache = set_stale(@)]

\* Marking::sched_recompute_all
Marking_sched_recompute_all(self) ==
    [self EXCEPT !.point_sets = sched(@, MarkingTask("RecomputeAll", "all")),
                 !.curves = sched(@, MarkingTask("RecomputeAll", "all")),
                 !.path_cache = set_stale(@)]

\* Marking::sched_recolor_all: the path cache is left as it is.
Marking_sched_recolor_all(self) ==
    [self EXCEPT !.point_sets = sched(@, MarkingTask("RecolorAll", "all")),
                 !.curves = sched(@, MarkingTask("RecolorAll", "all"))]

\* Marking::remove_all_annotations
Marking_remove_all_annotations(self) ==
    [self EXCEPT !.point_sets = disable_all(@), !.curves = disable_all(@),
                 !.path_cache = set_stale(@)]

\* Marking::process_all_tasks: the path cache is left as it is.
Marking_process_all_tasks(self, plane, selection, palette) ==
    LET env == [plane |-> plane, selection |-> selection, palette |-> palette]
    IN  [self EXCEPT !.point_sets = process_all_tasks(@, env).self,
                     !.curves = process_all_tasks(@, env).self]

\* Marking::mark_orbit_manually
Marking_mark_orbit_manually(self, orbit, color) ==
    LET col_obj == [object |-> orbit, color |-> color, visible |-> TRUE]
    IN  [self EXCEPT !.curves.objects = insert(@, "Orbit", col_obj),
                     !.path_cache = set_stale(@)]

\* Marking::disable_orbit
Marking_disable_orbit(self) ==
    [self EXCEPT !.curves = disable(@, "Orbit"), !.path_cache = set_stale(@)]

\* Marking::disable_all_equipotentials
Marking_disable_all_equipotentials(self) ==
    [self EXCEPT !.curves.objects = [k \in (DOMAIN @) \ {"Equipotential"} |-> @[k]],
                 !.path_cache = set_stale(@)]

\* Marking::disable_all_rays
Marking_disable_all_rays(self) ==
    [self EXCEPT !.curves.objects = [k \in (DOMAIN @) \ {"Ray"} |-> @[k]],
                 !.path_cache = set_stale(@)]

\* Marking::disable_all_curves
Marking_disable_all_curves(self) ==
    [self EXCEPT !.curves = disable_all(@), !.path_cache = set_stale(@)]

\* The path of a curve on the screen: each point located on the grid and moved to
\* the frame's coordinates, for the one grid and frame of this specification.
to_path(zs) == <<"path", zs>>

\* Marking::iter_visible_curves, mapped to coloured paths as update_cache does.
visible_paths(self) ==
    {[object |-> to_path(self.curves.objects[k].object),
      color |-> self.curves.objects[k].color] :
        k \in {j \in DOMAIN self.curves.objects : self.curves.objects[j].visible}}

\* Marking::update_cache
update_cache(self) ==
    [self EXCEPT !.path_cache = set_fresh([@ EXCEPT !.paths = visible_paths(self)])]

\* Marking::draw_curves: the cache is rebuilt if it is stale; the paths painted are
\* those of the cache.
Marking_draw_curves(self) ==
    LET drawn == IF self.path_cache.needs_refresh THEN update_cache(self) ELSE self
    IN  [self |-> drawn, painted |-> drawn.path_cache.paths]

\* The orbits and colours given to mark_orbit_manually.
ManualOrbits == {<<"orbit", 0>>}
ManualColors == {<<"WHITE">>}

MarkingCall(op, self, painted) ==
    [op |-> op, point_sets |-> self.point_sets, curves |-> self.curves,
     path_cache |-> self.path_cache, painted |-> painted]
MarkingSelf == [point_sets |-> marking.point_sets, curves |-> marking.curves,
                path_cache |-> marking.path_cache]

MarkingInit ==
    /\ marking = MarkingCall("default", Marking_default, {})
    /\ GridModelIdle /\ ColoringIdle /\ CyclesIdle /\ BailoutIdle /\ InteriorIdle
    /\ JuliaIdle /\ RayIdle /\ TableIdle /\ ChebyshevIdle /\ QuadRatIdle

\* Room in the queues for one more task.
CurvesRoom == Len(marking.curves.tasks) < MaxPending
PointSetsRoom == Len(marking.point_sets.tasks) < MaxPending

ToggleRay ==
    /\ CurvesRoom
    /\ marking' = MarkingCall("toggle_ray", Marking_toggle_ray(MarkingSelf), {})
    /\ UNCHANGED StoreRest

EnableRay ==
    /\ CurvesRoom
    /\ marking' = MarkingCall("enable_ray", Marking_enable_ray(MarkingSelf), {})
    /\ UNCHANGED StoreRest

ToggleEquipotential ==
    /\ CurvesRoom
    /\ marking' = MarkingCall("toggle_equipotential",
                              Marking_toggle_equipotential(MarkingSelf), {})
    /\ UNCHANGED StoreRest

SchedRecomputeAll ==
    /\ CurvesRoom /\ PointSetsRoom
    /\ marking' = MarkingCall("sched_recompute_all",
                              Marking_sched_recompute_all(MarkingSelf), {})
    /\ UNCHANGED StoreRest

SchedRecolorAll ==
    /\ CurvesRoom /\ PointSetsRoom
    /\ marking' = MarkingCall("sched_recolor_all",
                              Marking_sched_recolor_all(MarkingSelf), {})
    /\ UNCHANGED StoreRest

RemoveAllAnnotations ==
    /\ marking' = MarkingCall("remove_all_annotations",
                              Marking_remove_all_annotations(MarkingSelf), {})
    /\ UNCHANGED StoreRest

ProcessAllTasks(env) ==
    /\ marking' = MarkingCall("process_all_tasks",
                              Marking_process_all_tasks(MarkingSelf, env.plane,
                                                        env.selection, env.palette), {})
    /\ UNCHANGED StoreRest

MarkOrbitManually(orbit, color) ==
    /\ marking' = MarkingCall("mark_orbit_manually",
                              Marking_mark_orbit_manually(MarkingSelf, orbit, color), {})
    /\ UNCHANGED StoreRest

DisableOrbit ==
    /\ marking' = MarkingCall("disable_orbit", Marking_disable_orbit(MarkingSelf), {})
    /\ UNCHANGED StoreRest

DisableAllEquipotentials ==
    /\ marking' = MarkingCall("disable_all_equipotentials",
                              Marking_disable_all_equipotentials(MarkingSelf), {})
    /\ UNCHANGED StoreRest

DisableAllRays ==
    /\ marking' = MarkingCall("disable_all_rays", Marking_disable_all_rays(MarkingSelf),
                              {})
    /\ UNCHANGED StoreRest

DisableAllCurves ==
    /\ marking' = MarkingCall("disable_all_curves",
                              Marking_disable_all_curves(MarkingSelf), {})
    /\ UNCHANGED StoreRest

DrawCurves ==
    /\ LET r == Marking_draw_curves(MarkingSelf)
       IN  marking' = MarkingCall("draw_curves", r.self, r.painted)
    /\ UNCHANGED StoreRest

MarkingNext ==
    \/ ToggleRay
    \/ EnableRay
    \/ ToggleEquipotential
    \/ SchedRecomputeAll
    \/ SchedRecolorAll
    \/ RemoveAllAnnotations
    \/ \E env \in Envs : ProcessAllTasks(env)
    \/ \E orbit \in ManualOrbits, color \in ManualColors : MarkOrbitManually(orbit, color)
    \/ DisableOrbit
    \/ DisableAllEquipotentials
    \/ DisableAllRays
    \/ DisableAllCurves
    \/ DrawCurves

SpecMarking == MarkingInit /\ [][MarkingNext]_vars

\* C28: whenever the path cache is fresh, the cached paths are exactly the visible
\* curves with their current colours.
C28_FreshCacheIsCurrent ==
    ~marking.path_cache.needs_refresh =>
        marking.path_cache.paths = visible_paths(MarkingSelf)

----------------------------------------------------------------------------
(* SpecQuadRat: the maps of QuadRatPer4                                     *)
(* (crates/profiles/src/rational_maps/quad_rat_per_4.rs)                    *)

\* a / b for b # 0.
CDiv(a, b) == CMul(a, CInv(b))

\* What a map returns: a tuple of complex numbers, or, where the code divides by
\* zero, components that are not finite (infinite or NaN, equal to nothing).
Finite_(vs) == [finite |-> TRUE, v |-> vs]
NotFinite == [finite |-> FALSE, v |-> <<>>]

\* QuadRatPer4::map with 2. in the place of the 1. of its first factor.
QuadRatPer4_map_plus_two(z, c) ==
    IF z = CZero \/ c = COne THEN NotFinite
    ELSE Finite_(<<CDiv(CMul(CAdd(CSub(CMul(c, CSub(z, CReal(R(2)))), z), CReal(R(2))),
                             CSub(z, c)),
                        CMul(CMul(z, z), CSub(c, COne)))>>)

\* QuadRatPer4::map: the divisor z.powi(2) * (c - 1.) is zero for z = 0 and c = 1.
QuadRatPer4_map(z, c) ==
    IF z = CZero \/ c = COne THEN NotFinite
    ELSE Finite_(<<CDiv(CMul(CAdd(CSub(CMul(c, CSub(z, CReal(R(2)))), z), COne),
                             CSub(z, c)),
                        CMul(CMul(z, z), CSub(c, COne)))>>)

\* QuadRatPer4::map_and_multiplier: u inverts c_minus_1 * z.powi(2).
QuadRatPer4_map_and_multiplier(z, c) ==
    IF z = CZero \/ c = COne THEN NotFinite
    ELSE LET c2 == CMul(c, c)
             c_minus_1 == CSub(c, COne)
             u == CInv(CMul(c_minus_1, CMul(z, z)))
             two_c == CScale(R(2), c)
         IN  Finite_(<<CMul(CMul(CSub(z, c),
                                 CAdd(CSub(CMul(c_minus_1, z), two_c), COne)), u),
                       CMul(CSub(CAdd(c2, c_minus_1),
                                 CDiv(CSub(CScale(R(4), c2), two_c), z)), u)>>)

\* QuadRatPer4::gradient
QuadRatPer4_gradient(z, c) ==
    IF z = CZero \/ c = COne THEN NotFinite
    ELSE LET v == CSub(c, COne)
             c2 == CMul(c, c)
             z2 == CMul(z, z)
             u == CInv(CMul(v, z2))
             two_c == CScale(R(2), c)
         IN  Finite_(<<CMul(CMul(CSub(z, c),
                                 CAdd(CSub(CSub(CMul(c, z), z), two_c), COne)), u),
                       CMul(CSub(CAdd(c2, v),
                                 CDiv(CSub(CScale(R(4), c2), two_c), z)), u),
                       CDiv(CMul(CAdd(COne, CMul(CSub(two_c, c2),
                                                 CSub(z, CReal(R(2))))), u), v)>>)

\* The points and parameters the maps are evaluated at.
QuadRatPoints ==
    {CZero, COne, Cplx(R(2), R(0)), Cplx(R(-1), R(0)), Cplx(R(0), R(1)),
     Cplx(R(1), R(1)), Cplx(Rat(1, 2), R(0)), Cplx(R(2), R(-1))}

QuadRatCall(op, z, c, res) == [op |-> op, z |-> z, c |-> c, res |-> res]

QuadRatInit ==
    /\ qr = NoCall
    /\ GridModelIdle /\ ColoringIdle /\ CyclesIdle /\ BailoutIdle /\ InteriorIdle
    /\ JuliaIdle /\ RayIdle /\ TableIdle /\ ChebyshevIdle /\ MarkingIdle

QuadRatRest == <<gridModelVars, coloringVars, cyclesVars, bailoutVars, interiorVars,
                 juliaVars, rayVars, tableVars, chebyshevVars, markingVars>>

QuadRatMap(z, c) ==
    /\ qr.op = "none"
    /\ qr' = QuadRatCall("map", z, c, QuadRatPer4_map(z, c))
    /\ UNCHANGED QuadRatRest

QuadRatMapAndMultiplier(z, c) ==
    /\ qr.op = "none"
    /\ qr' = QuadRatCall("map_and_multiplier", z, c, QuadRatPer4_map_and_multiplier(z, c))
    /\ UNCHANGED QuadRatRest

QuadRatGradient(z, c) ==
    /\ qr.op = "none"
    /\ qr' = QuadRatCall("gradient", z, c, QuadRatPer4_gradient(z, c))
    /\ UNCHANGED QuadRatRest

\* The maps take &self and change nothing: each behaviour makes one call.
QuadRatNext ==
    \E z \in QuadRatPoints, c \in QuadRatPoints :
        \/ QuadRatMap(z, c)
        \/ QuadRatMapAndMultiplier(z, c)
        \/ QuadRatGradient(z, c)

SpecQuadRat == QuadRatInit /\ [][QuadRatNext]_vars

\* C25: for every parameter c outside {0, 1}, map(1, c) = c and map(c, c) = 0, and
\* for every z # 0 the first component of map_and_multiplier(z, c) and of
\* gradient(z, c) equals map(z, c); all of them are finite there.
C25_CriticalFourCycle ==
    qr.op # "none" /\ qr.c \notin {CZero, COne} /\ qr.z # CZero =>
        /\ qr.res.finite
        /\ qr.op = "map" /\ qr.z = COne => qr.res.v[1] = qr.c
        /\ qr.op = "map" /\ qr.z = qr.c => qr.res.v[1] = CZero
        /\ qr.op \in {"map_and_multiplier", "gradient"} =>
               /\ QuadRatPer4_map(qr.z, qr.c).finite
               /\ qr.res.v[1] = QuadRatPer4_map(qr.z, qr.c).v[1]

\* C25 witness: gradient at z = 1 + i, c = 2 - i, whose first component is the
\* value of map there, which is neither 0 nor c.
C25_Witness ==
    /\ qr.op = "gradient"
    /\ qr.z = Cplx(R(1), R(1)) /\ qr.c = Cplx(R(2), R(-1))
    /\ qr.res.finite
    /\ qr.res.v[1] = QuadRatPer4_map(qr.z, qr.c).v[1]
    /\ qr.res.v[1] \notin {CZero, qr.c}

====
